---- MODULE Spec2Model ----
(***************************************************************************)
(* Model of the PCIe NVMe block-device driver (addon/nvme): the DMA region *)
(* allocator, the PRP builder, the queue-pair engine and the block-device  *)
(* operations Read / Write / Seek / GetSize / IOCtl, together with the     *)
(* controller they talk to.                                                *)
(*                                                                         *)
(* 64-bit and 32-bit quantities whose width matters (the byte cursor, the  *)
(* starting LBA, the command dwords) are kept as little-endian tuples of   *)
(* 16-bit limbs, so that truncation and wrap-around are what the code      *)
(* does.  Addresses and transfer lengths stay far below 2^31 in every run  *)
(* of the model and are plain integers.                                    *)
(***************************************************************************)
EXTENDS Integers, Sequences, FiniteSets, TLC

(***************************************************************************)
(* Fixed-width arithmetic                                                  *)
(***************************************************************************)

\* one limb is 16 bits
LimbBase == 2^16

\* a u64 as four limbs, least significant first
U64Zero == <<0, 0, 0, 0>>

\* a small natural number (< 2^31) as u64
U64(n) == <<n % LimbBase, (n \div LimbBase) % LimbBase, 0, 0>>

\* a small natural number (< 2^31) as u32
U32(n) == <<n % LimbBase, (n \div LimbBase) % LimbBase>>

\* the value of a u32 that is known to be small
U32Val(w) == w[1] + LimbBase * w[2]

\* u64 >> 9 (division by NVME_LBA_SIZE)
U64Shr9(u) ==
    [i \in 1..4 |-> (u[i] \div 512) + ((IF i < 4 THEN u[i + 1] ELSE 0) % 512) * 128]

\* u64 << 9, modulo 2^64 (multiplication by NVME_LBA_SIZE)
U64Shl9(u) ==
    [i \in 1..4 |-> ((u[i] % 128) * 512) + (IF i > 1 THEN u[i - 1] \div 128 ELSE 0)]

\* u64 & 3: the alignment test with too short a mask
U64Low2(u) == u[1] % 4

\* u64 & 511
U64Low9(u) == u[1] % 512

\* static_cast<u32>(u64)
U64Lo32(u) == <<u[1], u[2]>>

\* (u64 >> 32) & 0xffffffff
U64Hi32(u) == <<u[3], u[4]>>

\* zero extension u32 -> u64
U64FromU32(w) == <<w[1], w[2], 0, 0>>

\* the u64 whose high dword is hi and whose low dword is lo
U64FromDwords(hi, lo) == <<lo[1], lo[2], hi[1], hi[2]>>

\* u64 + small natural number, modulo 2^64
U64AddSmall(u, k) ==
    LET s1 == u[1] + k
        s2 == u[2] + (s1 \div LimbBase)
        s3 == u[3] + (s2 \div LimbBase)
        s4 == u[4] + (s3 \div LimbBase)
    IN  <<s1 % LimbBase, s2 % LimbBase, s3 % LimbBase, s4 % LimbBase>>

\* u64 comparison a <= b
U64LessEq(a, b) ==
    \/ a = b
    \/ \E i \in 1..4 : a[i] < b[i] /\ \A j \in (i + 1)..4 : a[j] = b[j]

\* bitwise helpers on naturals
RECURSIVE BitAnd(_, _)
BitAnd(a, b) ==
    IF a = 0 \/ b = 0 THEN 0
    ELSE (a % 2) * (b % 2) + 2 * BitAnd(a \div 2, b \div 2)

RECURSIVE BitOr(_, _)
BitOr(a, b) ==
    IF a = 0 THEN b
    ELSE IF b = 0 THEN a
    ELSE (IF a % 2 = 1 \/ b % 2 = 1 THEN 1 ELSE 0) + 2 * BitOr(a \div 2, b \div 2)

(***************************************************************************)
(* Platform collaborators (host bridge, coherent memory window, cache)     *)
(***************************************************************************)

\* CBcmPCIeHostBridge::GetDMAAddress(PCIE_BUS_NVME): base of the inbound window
DMAAddress == 2^30

\* nvmehelper.h PhysicalOf: virtual address -> bus address
PhysicalOf(pVirt) == BitOr(pVirt, DMAAddress)

\* CMemorySystem::GetCoherentPage(COHERENT_SLOT_NVME) and (... + 1)
CoherentStart == 80 * 2^16
CoherentEnd == 81 * 2^16

\* DATA_CACHE_LINE_LENGTH_MAX
CacheLine == 2^6

\* IS_CACHE_ALIGNED(ptr, size)
IS_CACHE_ALIGNED(ptr, size) == ptr % CacheLine = 0 /\ size % CacheLine = 0

(***************************************************************************)
(* DMA region allocator (CNVMeSharedMemAllocator)                          *)
(***************************************************************************)

NVME_PAGE_SIZE == 4096
NVME_BLOCK_SIZE == NVME_PAGE_SIZE
NVME_BLOCK_ALIGN == NVME_PAGE_SIZE
NVME_BLOCK_BOUNDARY == 1048576
NVME_BLOCK_MAGIC == 1314213189

\* sizeof (TNVMeBlockHeader): four u32 and one pointer
HeaderSize == 4 * 4 + 8

\* x & ~mask
AndNot(x, mask) == x - BitAnd(x, mask)

\* the allocator after construction over [nMemStart, nMemEnd)
AllocatorNew(nMemStart, nMemEnd) ==
    [m_nMemStart |-> nMemStart, m_nMemEnd |-> nMemEnd, m_pFreeList |-> 0,
     hdr |-> <<>>]

\* a cursor that is moved past the header and not rounded
BumpAlignNone(nStart, nAlign) == nStart + HeaderSize

\* the cursor after the header, rounded up to nAlign
BumpAlign(nStart, nAlign) ==
    LET s == nStart + HeaderSize
        nAlignMask == nAlign - 1
    IN  IF BitAnd(s, nAlignMask) # 0 THEN AndNot(s + nAlignMask, nAlignMask) ELSE s

\* the aligned cursor left where it is, whatever the block crosses
BumpBoundaryKept(s, nSize, nBoundary) == s

\* the aligned cursor, rounded up to nBoundary when the block would cross one
BumpBoundary(s, nSize, nBoundary) ==
    LET nBoundaryMask == nBoundary - 1
    IN  IF AndNot(s, nBoundaryMask) # AndNot(s + nSize - 1, nBoundaryMask)
        THEN AndNot(s + nBoundaryMask, nBoundaryMask)
        ELSE s

\* a cursor that is never compared with the end of the arena
CursorUnchecked(nCursor, nMemEnd) == TRUE

\* the test that the cursor, moved past the block, is not beyond the arena
CursorFits(nCursor, nMemEnd) == ~(nCursor > nMemEnd)

\* a failed Allocate that puts the cursor back where it was
FailedCursorRestored(nCursor, nBefore) == nBefore

\* the cursor a failed Allocate leaves behind: it was moved before the test
\* and is not moved back
FailedCursor(nCursor, nBefore) == nCursor

\* GetFreeSpace
GetFreeSpace(a) ==
    IF a.m_nMemEnd > a.m_nMemStart THEN a.m_nMemEnd - a.m_nMemStart ELSE 0

\* whether a request takes the page-block path
IsPageRequest(nSize, nAlign, nBoundary) ==
    /\ nSize <= NVME_BLOCK_SIZE
    /\ nAlign <= NVME_BLOCK_ALIGN
    /\ nBoundary <= NVME_BLOCK_BOUNDARY

\* Allocate: [alloc |-> the allocator afterwards, p |-> the pointer or 0]
Allocate(a, nSize0, nAlign0, nBoundary0) ==
    LET page == IsPageRequest(nSize0, nAlign0, nBoundary0)
        Bump(nSize, nAlign, nBoundary, s) ==
            IF ~CursorFits(s + nSize, a.m_nMemEnd)
            THEN [alloc |-> [a EXCEPT !.m_nMemStart = FailedCursor(s + nSize, @)],
                  p |-> 0]
            ELSE [alloc |-> [a EXCEPT !.m_nMemStart = s + nSize,
                                      !.hdr = ((s - HeaderSize) :>
                                                  [nMagic |-> NVME_BLOCK_MAGIC,
                                                   nSize |-> nSize,
                                                   nAlign |-> nAlign,
                                                   nBoundary |-> nBoundary,
                                                   pNext |-> 0]) @@ a.hdr],
                  p |-> s]
        Sized(nSize, nAlign, nBoundary) ==
            Bump(nSize, nAlign, nBoundary,
                 BumpBoundary(BumpAlign(a.m_nMemStart, nAlign), nSize, nBoundary))
    IN  IF page /\ a.m_pFreeList # 0
        THEN [alloc |-> [a EXCEPT !.m_pFreeList = a.hdr[a.m_pFreeList].pNext,
                                  !.hdr[a.m_pFreeList].pNext = 0],
              p |-> a.m_pFreeList + HeaderSize]
        ELSE IF page
        THEN Sized(NVME_BLOCK_SIZE, NVME_BLOCK_ALIGN, NVME_BLOCK_BOUNDARY)
        ELSE Sized(nSize0, nAlign0, nBoundary0)

\* a Free that pushes nothing on the free list
FreeLeak(a, pBlock) == a

\* a Free that pushes the block on the free list whatever its header says
FreePushAny(a, pBlock) ==
    [a EXCEPT !.hdr[pBlock - HeaderSize].pNext = a.m_pFreeList,
              !.m_pFreeList = pBlock - HeaderSize]

\* Free: the allocator afterwards
Free(a, pBlock) ==
    LET h == pBlock - HeaderSize
    IN  IF /\ a.hdr[h].nSize = NVME_BLOCK_SIZE
           /\ a.hdr[h].nAlign = NVME_BLOCK_ALIGN
           /\ a.hdr[h].nBoundary = NVME_BLOCK_BOUNDARY
        THEN [a EXCEPT !.hdr[h].pNext = a.m_pFreeList, !.m_pFreeList = h]
        ELSE a

(***************************************************************************)
(* PRP builder (CNVMePRP)                                                  *)
(***************************************************************************)

PRP_PAGE_SIZE == NVME_PAGE_SIZE
PRP_ENTRY_SIZE == 8

\* a list that leaves out the page PRP2 would have pointed to
ListPagesFromThird(uSecond, uNeeded, uPages) ==
    [i \in 1..(uPages * (PRP_PAGE_SIZE \div PRP_ENTRY_SIZE)) |->
        IF i < uNeeded THEN PhysicalOf(uSecond + i * PRP_PAGE_SIZE) ELSE 0]

\* the list pages after memset and the fill loop: uNeeded page addresses from
\* uSecond on, zeros after them
ListPages(uSecond, uNeeded, uPages) ==
    [i \in 1..(uPages * (PRP_PAGE_SIZE \div PRP_ENTRY_SIZE)) |->
        IF i <= uNeeded THEN PhysicalOf(uSecond + (i - 1) * PRP_PAGE_SIZE) ELSE 0]

\* a builder that never makes a list: PRP2 is the second page whatever follows
BuildForBufferNoList(a, pBuffer, ulLength) ==
    [ok |-> pBuffer # 0 /\ ulLength # 0, alloc |-> a, prp1 |-> PhysicalOf(pBuffer),
     prp2 |-> IF ulLength <= PRP_PAGE_SIZE - BitAnd(pBuffer, PRP_PAGE_SIZE - 1) THEN 0
              ELSE PhysicalOf(AndNot(pBuffer, PRP_PAGE_SIZE - 1) + PRP_PAGE_SIZE),
     list |-> 0, entries |-> <<>>]

\* BuildForBuffer: [ok, alloc, prp1, prp2, list (virtual address of the list
\* page or 0), entries (the contents of the list pages)]
BuildForBuffer(a, pBuffer, ulLength) ==
    LET uOffsetInFirstPage == BitAnd(pBuffer, PRP_PAGE_SIZE - 1)
        uFirstPageRemaining == PRP_PAGE_SIZE - uOffsetInFirstPage
        uSecondPageVirt == AndNot(pBuffer, PRP_PAGE_SIZE - 1) + PRP_PAGE_SIZE
        uRemaining == ulLength - uFirstPageRemaining
        uEntriesPerPage == PRP_PAGE_SIZE \div PRP_ENTRY_SIZE
        uNeededEntries == (uRemaining + PRP_PAGE_SIZE - 1) \div PRP_PAGE_SIZE
        uPages == (uNeededEntries + uEntriesPerPage - 1) \div uEntriesPerPage
        Listed(r, nPrp1, uSecond, uNeeded, uListPages) ==
            IF r.p = 0
            THEN [ok |-> FALSE, alloc |-> r.alloc, prp1 |-> nPrp1,
                  prp2 |-> PhysicalOf(uSecond), list |-> 0, entries |-> <<>>]
            ELSE [ok |-> TRUE, alloc |-> r.alloc, prp1 |-> nPrp1,
                  prp2 |-> PhysicalOf(r.p), list |-> r.p,
                  entries |-> ListPages(uSecond, uNeeded, uListPages)]
        Paged(nPrp1, uFirst, uSecond) ==
            IF ulLength <= uFirst
            THEN [ok |-> TRUE, alloc |-> a, prp1 |-> nPrp1, prp2 |-> 0,
                  list |-> 0, entries |-> <<>>]
            ELSE IF ulLength - uFirst <= PRP_PAGE_SIZE
            THEN [ok |-> TRUE, alloc |-> a, prp1 |-> nPrp1,
                  prp2 |-> PhysicalOf(uSecond), list |-> 0, entries |-> <<>>]
            ELSE Listed(Allocate(a, uPages * PRP_PAGE_SIZE, PRP_PAGE_SIZE,
                                 NVME_BLOCK_BOUNDARY),
                        nPrp1, uSecond, uNeededEntries, uPages)
    IN  IF pBuffer = 0 \/ ulLength = 0
        THEN [ok |-> FALSE, alloc |-> a, prp1 |-> 0, prp2 |-> 0, list |-> 0,
              entries |-> <<>>]
        ELSE Paged(PhysicalOf(pBuffer), uFirstPageRemaining, uSecondPageVirt)

\* ~CNVMePRP: the allocator after the descriptor set is dropped
PrpRelease(a, list) == IF list # 0 THEN Free(a, list) ELSE a

(***************************************************************************)
(* Driver constants (nvme.h, nvme.cpp)                                     *)
(***************************************************************************)

NVME_LBA_SIZE == 512

NVME_STATUS_OK == 0
NVME_STATUS_ERROR_BAD_PARAM == -1
NVME_STATUS_ERROR_NO_RESOURCE == -2
NVME_STATUS_ERROR_CONTROLLER == -3
NVME_STATUS_ERROR_TIMEOUT == -4
NVME_STATUS_ERROR_READ_ONLY == -5
NVME_STATUS_ERROR_LBA_RANGE == -6

\* controller registers and their fields
NVME_REG_INTMS == 12
NVME_REG_INTMC == 16
NVME_REG_INTM_ALL_VECTORS == <<65535, 65535>>
NVME_REG_INTM_VECTOR0 == <<1, 0>>
NVME_REG_CC == 20
NVME_REG_CC_IOCQES__SHIFT == 20
NVME_REG_CC_IOCQES__MASK == 15 * 2^20
NVME_REG_CC_IOCQES_16B == 4
NVME_REG_CC_IOSQES__SHIFT == 16
NVME_REG_CC_IOSQES_64B == 6
NVME_REG_CC_EN == 1
NVME_REG_CSTS == 28
NVME_REG_CSTS_RDY == 1
NVME_REG_AQA == 36
NVME_REG_ASQ == 40
NVME_REG_ACQ == 48

NVME_REG_DOORBELL_BASE == 4096

NVME_ADMIN_OPC_CREATE_IO_SQ == 1
NVME_ADMIN_OPC_CREATE_IO_CQ == 5
NVME_ADMIN_OPC_IDENTIFY == 6

NVME_IO_OPC_FLUSH == 0
NVME_IO_OPC_WRITE == 1
NVME_IO_OPC_READ == 2

NSID == 1
AQID == 0
IOQID == 1

NVME_ADMIN_QUEUE_ENTRIES == 64
NVME_IO_QUEUE_ENTRIES == 64

\* timer ticks per second.  The kernel's tick rate is scaled down here: a poll
\* that finds nothing gives up after MSEC2HZ (5000) = 5 * HZ ticks, and every
\* one of those ticks is a step of the model.
HZ == 2
MSEC2HZ(msec) == (msec * HZ) \div 1000

POLL_TIMEOUT_HZ == MSEC2HZ(5000)

\* sizeof (TNVMeCommand), sizeof (TNVMeCompletion)
SizeofCommand == 64
SizeofCompletion == 16

\* circle/device.h
DEVICE_IOCTL_SYNC == 1

\* completion status word fields
CQE_STATUS_PHASE_BIT == 1
CQE_STATUS_SC__SHIFT == 1
CQE_STATUS_SC__MASK == 255 * 2^1
CQE_STATUS_SCT__SHIFT == 9
CQE_STATUS_SCT__MASK == 7 * 2^9

\* DOORBELL_STRIDE(dstrd)
DOORBELL_STRIDE(dstrd) == 2^(dstrd + 2)

\* NVME_DOORBELL_SQ_OFFSET / NVME_DOORBELL_CQ_OFFSET
NVME_DOORBELL_SQ_OFFSET(stride, index) ==
    NVME_REG_DOORBELL_BASE + (index * stride * 2)
NVME_DOORBELL_CQ_OFFSET(stride, index) ==
    NVME_REG_DOORBELL_BASE + (index * stride * 2) + 4

\* m_nDoorbellStride as Initialize derives it from CAP (a u64):
\* DOORBELL_STRIDE ((caps & NVME_REG_CAP_DSTRD__MASK) << NVME_REG_CAP_DSTRD__SHIFT),
\* the mask is bits 32..35 and the shift is a left shift by 32 within 64 bits
DoorbellStrideOf(caps) ==
    LET masked == <<0, 0, caps[3] % 16, 0>>
        shifted == <<0, 0, masked[1], masked[2]>>
        dstrd == shifted[1] + LimbBase * shifted[2]
    IN  DOORBELL_STRIDE(dstrd)

\* a decoding that tests SC = 0x80 without looking at SCT
CompletionResultScOnly(usStatus) ==
    LET nSCT == BitAnd(usStatus, CQE_STATUS_SCT__MASK) \div 2^CQE_STATUS_SCT__SHIFT
        nSC == BitAnd(usStatus, CQE_STATUS_SC__MASK) \div 2^CQE_STATUS_SC__SHIFT
    IN  IF nSCT # 0 \/ nSC # 0
        THEN IF nSC = 128
             THEN NVME_STATUS_ERROR_LBA_RANGE
             ELSE NVME_STATUS_ERROR_CONTROLLER
        ELSE NVME_STATUS_OK

\* the result PollForCompletion returns for a matched completion status word
CompletionResult(usStatus) ==
    LET nSCT == BitAnd(usStatus, CQE_STATUS_SCT__MASK) \div 2^CQE_STATUS_SCT__SHIFT
        nSC == BitAnd(usStatus, CQE_STATUS_SC__MASK) \div 2^CQE_STATUS_SC__SHIFT
    IN  IF nSCT # 0 \/ nSC # 0
        THEN IF nSCT = 0 /\ nSC = 128
             THEN NVME_STATUS_ERROR_LBA_RANGE
             ELSE NVME_STATUS_ERROR_CONTROLLER
        ELSE NVME_STATUS_OK

\* a submission queue entry after memset (TNVMeCommand, 64 bytes of zeros)
ZeroCommand ==
    [opc |-> 0, fuse |-> 0, cid |-> 0, nsid |-> 0, reserved |-> 0, mptr |-> 0,
     prp1 |-> 0, prp2 |-> 0, cdw10 |-> <<0, 0>>, cdw11 |-> <<0, 0>>, cdw12 |-> <<0, 0>>,
     cdw13 |-> <<0, 0>>, cdw14 |-> <<0, 0>>, cdw15 |-> <<0, 0>>]

\* a submission queue entry with cdw10 and cdw12 stored in each other's place
CommandDwordsSwapped(uchOpcode, usCid, nNsId, nCdw10, nCdw11, nCdw12, ulPrp1, ulPrp2) ==
    [ZeroCommand EXCEPT !.opc = uchOpcode, !.cid = usCid, !.nsid = nNsId,
                        !.prp1 = ulPrp1, !.prp2 = ulPrp2, !.cdw10 = nCdw12,
                        !.cdw11 = nCdw11, !.cdw12 = nCdw10]

\* a submission queue entry after memset and population (SubmitCommand)
Command(uchOpcode, usCid, nNsId, nCdw10, nCdw11, nCdw12, ulPrp1, ulPrp2) ==
    [ZeroCommand EXCEPT !.opc = uchOpcode, !.cid = usCid, !.nsid = nNsId,
                        !.prp1 = ulPrp1, !.prp2 = ulPrp2, !.cdw10 = nCdw10,
                        !.cdw11 = nCdw11, !.cdw12 = nCdw12]

ZeroCompletion == [sqhead |-> 0, sqid |-> 0, cid |-> 0, status |-> 0]

\* the rings hold the slots written since they were zeroed; the others are zero
SqRead(sq, i) == IF i \in DOMAIN sq THEN sq[i] ELSE ZeroCommand
CqRead(cq, i) == IF i \in DOMAIN cq THEN cq[i] ELSE ZeroCompletion

\* TQueue after the constructor
QueueNew(usID, nEntries) ==
    [usID |-> usID, nEntries |-> nEntries, pSqVirt |-> 0, pCqVirt |-> 0,
     nSqPhys |-> 0, nCqPhys |-> 0, nSqTail |-> 0, nCqHead |-> 0, bCqPhase |-> FALSE]

\* starting LBA as Read and Write compute it: unsigned nLBA = m_ulOffset / 512
StartLBA(ulOffset) == U64Lo32(U64Shr9(ulOffset))

(***************************************************************************)
(* Bounds and the inputs the runs draw from                                *)
(***************************************************************************)

\* number of Read / Write / IOCtl calls in one run
MaxOps == 2

\* how many times the completion ring of the queue under test is gone round
MaxWraps == 2

\* how many times a block is allocated and freed again
MaxRounds == 3

\* how many commands a run with a late controller submits: one more than the
\* submission ring holds
MaxCommands == 65

\* how many Allocate and Free calls an allocator under test serves
MaxCalls == 4

\* VER register values: 1.4.0, 1.3.0, 1.4.1 and, not supported, 2.0.0, 1.2.0,
\* 1.5.0, 0.4.0
GoodVersion == 1 * 2^16 + 4 * 2^8
Versions ==
    {GoodVersion, 1 * 2^16 + 3 * 2^8, 1 * 2^16 + 4 * 2^8 + 1,
     2 * 2^16, 1 * 2^16 + 2 * 2^8, 1 * 2^16 + 5 * 2^8, 4 * 2^8}

\* CAP register values: DSTRD (bits 32..35) from 0 to 3
CapDefault == <<0, 0, 0, 0>>
Caps == {<<0, 0, dstrd, 0>> : dstrd \in 0..3}

\* CC as the driver finds it: after a reset, or enabled by the boot firmware
ControlValues ==
    {0, NVME_REG_CC_IOSQES_64B * 2^NVME_REG_CC_IOSQES__SHIFT
        + NVME_REG_CC_IOCQES_16B * 2^NVME_REG_CC_IOCQES__SHIFT + NVME_REG_CC_EN}

\* namespace sizes in blocks: 16 blocks, 2^32 blocks
NsSmall == U64(16)
NsSizes == {NsSmall, <<0, 0, 1, 0>>}

\* LBA formats of the Identify Namespace data: 512-byte blocks, 4096-byte
\* blocks, 512-byte blocks with 8 bytes of metadata
GoodFormat == [lbads |-> 9, ms |-> 0]
Format4096 == [lbads |-> 12, ms |-> 0]
FormatMeta == [lbads |-> 9, ms |-> 8]

\* Identify Namespace data: FLBAS (byte 26) and the LBA format table (byte 128 on)
IdGood == [flbas |-> 0, lbaf |-> <<GoodFormat>>]
IdentifyData ==
    {IdGood,
     [flbas |-> 0, lbaf |-> <<Format4096, GoodFormat>>],
     [flbas |-> 0, lbaf |-> <<FormatMeta, GoodFormat>>],
     [flbas |-> 1, lbaf |-> <<Format4096, GoodFormat>>],
     [flbas |-> 16 + 1, lbaf |-> <<FormatMeta, GoodFormat>>],
     [flbas |-> 1, lbaf |-> <<GoodFormat, Format4096>>]}

\* the controller a run faces: its properties and, as they are after a reset,
\* its doorbell registers and ring positions
ControllerNew(ver, cap, nsze, id, cc) ==
    [ver |-> ver, cap |-> cap, nsze |-> nsze, flbas |-> id.flbas, lbaf |-> id.lbaf,
     cc |-> cc, rdy |-> cc % 2,
     sqHead |-> 0, sqTail |-> 0, cqTail |-> 0, cqPhase |-> 1, cqHead |-> 0,
     intms |-> <<0, 0>>]

\* a controller the driver supports
ControllerDefault == ControllerNew(GoodVersion, CapDefault, NsSmall, IdGood, 0)

\* byte offsets given to Seek
Off0 == U64(0)
Off512 == U64(512)
OffMisaligned == U64(100)
OffBeyond == U64(16 * 512)
Off2p41 == <<0, 0, 512, 0>>
Off2p41Plus == <<1024, 0, 512, 0>>

\* user buffers: page aligned; 512-aligned in the last block of a page; not
\* cache aligned
UserBase == 96 * 2^16
BufPage == UserBase
BufPage2 == UserBase + 2^15
BufTail == UserBase + 2^16 + 4096 - 512
BufOdd == UserBase + 2^17 + 8
BufMid == UserBase + 3 * 2^16 + 2048

\* what new u8[n] returns: a cache-aligned heap block (or 0)
HeapBase == 112 * 2^16
HeapBlock == HeapBase + 4096 - 512

\* completion status the controller may post for a command it could execute:
\* [sct, sc, hi] with hi the bits 12..15 of the status word
StatusOk == [sct |-> 0, sc |-> 0, hi |-> 0]
StatusOkHi == [sct |-> 0, sc |-> 0, hi |-> 4]
StatusGeneric == [sct |-> 0, sc |-> 4, hi |-> 0]
StatusSct1 == [sct |-> 1, sc |-> 128, hi |-> 0]
LbaRangeStatus == [sct |-> 0, sc |-> 128, hi |-> 0]

StatusWord(st, p) == p + 2 * st.sc + 2^9 * st.sct + 2^12 * st.hi

Shape(buf, cnt) == [buf |-> buf, cnt |-> cnt]

\* The environments a run is drawn from.  Each names the calls the caller
\* makes (offsets for Seek; buffer and length for Read and Write; payload
\* patterns; IOCtl codes), what operator new may return, the status words the
\* controller answers with, and whether the controller may stay silent until
\* the poll gives up.
ScnRoundTrip ==
    [name |-> "roundtrip",
     offsets |-> {Off0, Off512},
     rshapes |-> {Shape(BufPage2, 512), Shape(BufPage2, 1024), Shape(BufPage2, 5120),
                  Shape(BufOdd, 5120)},
     wshapes |-> {Shape(BufPage, 512), Shape(BufTail, 1024), Shape(BufTail, 5120),
                  Shape(BufOdd, 5120)},
     tags |-> {1},
     heap |-> {HeapBlock},
     ioctls |-> {},
     statuses |-> {StatusOk},
     silent |-> FALSE,
     ctrls |-> {ControllerDefault},
     ready |-> {TRUE},
     build |-> {}]

ScnParams ==
    [name |-> "params",
     offsets |-> {Off0, OffMisaligned},
     rshapes |-> {Shape(BufPage, 0), Shape(BufPage, 100), Shape(BufPage, 512),
                  Shape(BufOdd, 512)},
     wshapes |-> {Shape(BufPage, 0), Shape(BufPage, 100), Shape(BufOdd, 512)},
     tags |-> {1},
     heap |-> {0, HeapBlock},
     ioctls |-> {DEVICE_IOCTL_SYNC, DEVICE_IOCTL_SYNC + 1},
     statuses |-> {StatusOk},
     silent |-> FALSE,
     ctrls |-> {ControllerDefault},
     ready |-> {TRUE},
     build |-> {}]

ScnErrors ==
    [name |-> "errors",
     offsets |-> {Off0, OffBeyond},
     rshapes |-> {Shape(BufPage, 512), Shape(BufOdd, 512)},
     wshapes |-> {Shape(BufPage, 512)},
     tags |-> {1},
     heap |-> {HeapBlock},
     ioctls |-> {DEVICE_IOCTL_SYNC},
     statuses |-> {StatusOk, StatusOkHi, StatusGeneric, StatusSct1},
     silent |-> FALSE,
     ctrls |-> {ControllerDefault},
     ready |-> {TRUE},
     build |-> {}]

ScnSilent ==
    [name |-> "silent",
     offsets |-> {Off0},
     rshapes |-> {Shape(BufOdd, 512)},
     wshapes |-> {Shape(BufTail, 5120)},
     tags |-> {1},
     heap |-> {HeapBlock},
     ioctls |-> {DEVICE_IOCTL_SYNC},
     statuses |-> {StatusOk},
     silent |-> TRUE,
     ctrls |-> {ControllerDefault},
     ready |-> {TRUE},
     build |-> {}]

ScnWide ==
    [name |-> "wide",
     offsets |-> {Off0, Off2p41, Off2p41Plus},
     rshapes |-> {Shape(BufPage, 512)},
     wshapes |-> {Shape(BufPage2, 512)},
     tags |-> {1},
     heap |-> {HeapBlock},
     ioctls |-> {},
     statuses |-> {StatusOk},
     silent |-> FALSE,
     ctrls |-> {ControllerNew(GoodVersion, CapDefault, nsze, IdGood, 0) : nsze \in NsSizes},
     ready |-> {TRUE},
     build |-> {}]

\* the controller may fail to answer a ready wait in time
ScnReset ==
    [name |-> "reset",
     offsets |-> {Off0},
     rshapes |-> {Shape(BufPage, 512)},
     wshapes |-> {},
     tags |-> {1},
     heap |-> {HeapBlock},
     ioctls |-> {DEVICE_IOCTL_SYNC},
     statuses |-> {StatusOk},
     silent |-> FALSE,
     ctrls |-> {ControllerNew(ver, CapDefault, NsSmall, IdGood, cc) :
                   ver \in Versions, cc \in ControlValues},
     ready |-> BOOLEAN,
     build |-> {}]

\* controllers of every doorbell stride
ScnStride ==
    [name |-> "stride",
     offsets |-> {Off0},
     rshapes |-> {Shape(BufPage, 512)},
     wshapes |-> {},
     tags |-> {1},
     heap |-> {HeapBlock},
     ioctls |-> {DEVICE_IOCTL_SYNC},
     statuses |-> {StatusOk},
     silent |-> TRUE,
     ctrls |-> {ControllerNew(GoodVersion, cap, NsSmall, IdGood, 0) : cap \in Caps},
     ready |-> {TRUE},
     build |-> {}]

\* namespaces of every format
ScnIdentify ==
    [name |-> "identify",
     offsets |-> {Off0, Off512},
     rshapes |-> {Shape(BufPage, 512)},
     wshapes |-> {Shape(BufPage2, 512)},
     tags |-> {1},
     heap |-> {HeapBlock},
     ioctls |-> {DEVICE_IOCTL_SYNC},
     statuses |-> {StatusOk},
     silent |-> FALSE,
     ctrls |-> {ControllerNew(GoodVersion, CapDefault, nsze, id, 0) :
                   nsze \in NsSizes, id \in IdentifyData},
     ready |-> {TRUE},
     build |-> {}]

\* 512-byte-aligned buffers that begin in the middle of a page
ScnStraddle ==
    [name |-> "straddle",
     offsets |-> {Off0},
     rshapes |-> {Shape(BufMid, 2048), Shape(BufMid, 4096), Shape(BufMid, 8192)},
     wshapes |-> {Shape(BufPage, 8192)},
     tags |-> {1},
     heap |-> {HeapBlock},
     ioctls |-> {},
     statuses |-> {StatusOk},
     silent |-> FALSE,
     ctrls |-> {ControllerDefault},
     ready |-> {TRUE},
     build |-> {}]

\* the driver compiled with NVME_READ_ONLY
ScnReadOnly ==
    [name |-> "readonly",
     offsets |-> {Off0, Off512, OffMisaligned},
     rshapes |-> {Shape(BufPage2, 512)},
     wshapes |-> {Shape(BufPage, 0), Shape(BufPage, 100), Shape(BufPage, 512),
                  Shape(BufOdd, 512), Shape(BufTail, 5120)},
     tags |-> {1},
     heap |-> {HeapBlock},
     ioctls |-> {DEVICE_IOCTL_SYNC},
     statuses |-> {StatusOk},
     silent |-> FALSE,
     ctrls |-> {ControllerDefault},
     ready |-> {TRUE},
     build |-> {"NVME_READ_ONLY"}]

\* a controller that answers late: flushes only
ScnDrift ==
    [name |-> "drift",
     offsets |-> {Off0},
     rshapes |-> {},
     wshapes |-> {},
     tags |-> {1},
     heap |-> {HeapBlock},
     ioctls |-> {DEVICE_IOCTL_SYNC},
     statuses |-> {StatusOk},
     silent |-> TRUE,
     ctrls |-> {ControllerDefault},
     ready |-> {TRUE},
     build |-> {}]

\* a build that waits for the completion interrupt: flushes only, the
\* controller may answer late
ScnInterrupt ==
    [name |-> "interrupt",
     offsets |-> {Off0},
     rshapes |-> {},
     wshapes |-> {},
     tags |-> {1},
     heap |-> {HeapBlock},
     ioctls |-> {DEVICE_IOCTL_SYNC},
     statuses |-> {StatusOk, StatusGeneric},
     silent |-> TRUE,
     ctrls |-> {ControllerDefault},
     ready |-> {TRUE},
     build |-> {"NO_BUSY_WAIT"}]

Scenarios ==
    {ScnRoundTrip, ScnParams, ScnErrors, ScnSilent, ScnWide, ScnReset, ScnStride,
     ScnIdentify, ScnStraddle, ScnReadOnly}

(***************************************************************************)
(* State                                                                   *)
(***************************************************************************)

VARIABLES
    drvState,           \* "constructed", "ready" (Initialize returned true), "failed"
    m_ulOffset,         \* u64
    m_ulNamespaceSize,  \* u64
    m_nDoorbellStride,
    m_AdminQueue,
    m_IoQueue,
    m_Allocator,
    sqMem,              \* the I/O submission ring (the slots written)
    cqMem,              \* the I/O completion ring (the slots written)
    mem,                \* data memory by bus address, one token per 512 bytes
    prpListMem,         \* PRP list pages by bus address
    heapLive,           \* heap blocks handed out by new and not yet deleted
    pc,                 \* "idle": no call in progress; "poll": in PollForCompletion
    call,               \* the locals of the call in progress
    ret,                \* the last call that returned and its return value
    hist,               \* the last two Read/Write/IOCtl calls that returned
    log,                \* what the current (or last) call did, in order
    act,                \* the step taken last
    opCount,
    nTimedOut,          \* the number of commands given up with a timeout so far
    m_Event,            \* the completion event: TRUE while it is signalled
    hpc,                \* the interrupt handler: "idle", or "set" once it has masked
    syncCalls,          \* the number of IOCtl (DEVICE_IOCTL_SYNC) calls so far
    scn,                \* the environment the run is drawn from
    ctrl,               \* the controller: properties, doorbell registers, ring positions
    dev,                \* namespace contents by LBA
    stWord,             \* a completion status word
    stResult,           \* <<>>, or <<the result PollForCompletion returns for it>>
    prpArgs,            \* a PRP builder's allocator and the buffer handed to it
    prpResult,          \* <<>>, <<what BuildForBuffer left>>, then what the destructor left
    phQueue,            \* a queue whose completions are consumed one by one
    phCount,            \* the number of completions consumed from phQueue
    arena,              \* an allocator on its own
    arenaLog,           \* the Allocate and Free calls made on arena, in order
    regIn,              \* <<>>, or <<the register read, its value>>
    regOut,             \* <<>>, or <<what Initialize derives from that value>>
    wr,                 \* <<>>, or one WaitReady call and the CSTS.RDY bit it polls
    ld                  \* <<>>, or one CLineDiscipline object and its input device

ioVars == <<drvState, m_ulOffset, m_ulNamespaceSize, m_nDoorbellStride, m_AdminQueue,
            m_IoQueue, m_Allocator, sqMem, cqMem, mem, prpListMem, heapLive, pc, call,
            ret, hist, log, act, opCount, nTimedOut, m_Event, hpc, syncCalls, scn,
            ctrl, dev>>

stVars == <<stWord, stResult>>

prpVars == <<prpArgs, prpResult>>

phVars == <<phQueue, phCount>>

arVars == <<arena, arenaLog>>

regVars == <<regIn, regOut>>

sideVars == <<wr, ld>>

auxVars == <<stVars, prpVars, phVars, arVars, regVars, sideVars>>

vars == <<ioVars, auxVars>>

NoCall == [op |-> "none", arg |-> 0, pBuffer |-> 0, ulCount |-> 0, pDMABuffer |-> 0,
           pTransferBuffer |-> 0, list |-> 0, usCid |-> 0, off |-> U64Zero, tag |-> 0,
           submitted |-> FALSE, status |-> -1, nElapsed |-> 0, step |-> 0]

\* an indeterminate u64 (a member the constructor leaves uninitialized)
Uninit64 == <<-1, -1, -1, -1>>

Event(ev, a, b) == [ev |-> ev, a |-> a, b |-> b]

\* the token of block k of the payload with pattern tag
Payload(tag, k) == <<tag, k>>

\* token of memory never written, token of a block never written
MemRead(m, busAddr) == IF busAddr \in DOMAIN m THEN m[busAddr] ELSE <<0, 0>>
DevRead(d, lba) == IF lba \in DOMAIN d THEN d[lba] ELSE <<0, 0>>

\* the driver-visible state as one record
Cur ==
    [drvState |-> drvState, m_ulOffset |-> m_ulOffset,
     m_ulNamespaceSize |-> m_ulNamespaceSize, m_nDoorbellStride |-> m_nDoorbellStride,
     m_AdminQueue |-> m_AdminQueue, m_IoQueue |-> m_IoQueue, m_Allocator |-> m_Allocator,
     sqMem |-> sqMem, mem |-> mem, prpListMem |-> prpListMem, heapLive |-> heapLive,
     pc |-> pc, call |-> call, ret |-> ret, hist |-> hist, log |-> log,
     syncCalls |-> syncCalls, ctrl |-> ctrl, build |-> scn.build, m_Event |-> m_Event]

\* the step that leaves the driver-visible state as S
Set(S) ==
    /\ drvState' = S.drvState
    /\ m_ulOffset' = S.m_ulOffset
    /\ m_ulNamespaceSize' = S.m_ulNamespaceSize
    /\ m_nDoorbellStride' = S.m_nDoorbellStride
    /\ m_AdminQueue' = S.m_AdminQueue
    /\ m_IoQueue' = S.m_IoQueue
    /\ m_Allocator' = S.m_Allocator
    /\ sqMem' = S.sqMem
    /\ mem' = S.mem
    /\ prpListMem' = S.prpListMem
    /\ heapLive' = S.heapLive
    /\ pc' = S.pc
    /\ call' = S.call
    /\ ret' = S.ret
    /\ hist' = S.hist
    /\ log' = S.log
    /\ syncCalls' = S.syncCalls
    /\ ctrl' = S.ctrl
    /\ m_Event' = S.m_Event

(***************************************************************************)
(* The controller's registers                                              *)
(***************************************************************************)

\* the doorbell stride the controller decodes with: 4 << CAP.DSTRD
CtrlStride(c) == 2^((c.cap[3] % 16) + 2)

\* MmioRead32 (NVME_REG_CC)
MmioReadCC(S) == S.ctrl.cc

\* MmioWrite32: CC and the I/O queue's doorbells latch the value, INTMS sets
\* and INTMC clears the mask bits written as one (a u32, two limbs); the write
\* is logged
MmioWrite32(S, nOffset, nValue) ==
    LET c == S.ctrl
        c2 == IF nOffset = NVME_REG_CC
              THEN [c EXCEPT !.cc = nValue]
              ELSE IF nOffset = NVME_REG_INTMS
              THEN [c EXCEPT !.intms = <<BitOr(@[1], nValue[1]), BitOr(@[2], nValue[2])>>]
              ELSE IF nOffset = NVME_REG_INTMC
              THEN [c EXCEPT !.intms = <<AndNot(@[1], nValue[1]), AndNot(@[2], nValue[2])>>]
              ELSE IF nOffset = NVME_REG_DOORBELL_BASE + 2 * IOQID * CtrlStride(c)
              THEN [c EXCEPT !.sqTail = nValue]
              ELSE IF nOffset = NVME_REG_DOORBELL_BASE + (2 * IOQID + 1) * CtrlStride(c)
              THEN [c EXCEPT !.cqHead = nValue]
              ELSE c
    IN  [S EXCEPT !.ctrl = c2, !.log = Append(@, Event("mmio", nOffset, nValue))]

(***************************************************************************)
(* Queue-pair engine                                                       *)
(***************************************************************************)

\* SubmitCommand on the I/O queue, up to the call of PollForCompletion
\* a submission that rings the doorbell before it writes the slot
SubmitCommandDoorbellFirst(S, uchOpcode, nNsId, nCdw10, nCdw11, nCdw12, ulPrp1, ulPrp2) ==
    LET q == S.m_IoQueue
        nSqTail == (q.nSqTail + 1) % q.nEntries
        S1 == MmioWrite32([S EXCEPT !.m_IoQueue.nSqTail = nSqTail],
                          NVME_DOORBELL_SQ_OFFSET(S.m_nDoorbellStride, q.usID), nSqTail)
        S2 == [S1 EXCEPT !.sqMem = (q.nSqTail :>
                             Command(uchOpcode, q.nSqTail, nNsId, nCdw10, nCdw11, nCdw12,
                                     ulPrp1, ulPrp2)) @@ @,
                         !.log = Append(@, Event("slot", q.usID, q.nSqTail))]
    IN  [S2 EXCEPT !.pc = "poll", !.call.usCid = q.nSqTail, !.call.submitted = TRUE]

\* a submission that moves the tail on by two slots
SubmitCommandTailAhead(S, uchOpcode, nNsId, nCdw10, nCdw11, nCdw12, ulPrp1, ulPrp2) ==
    LET q == S.m_IoQueue
        nSqTail == (q.nSqTail + 2) % q.nEntries
        S1 == [S EXCEPT !.sqMem = (q.nSqTail :>
                            Command(uchOpcode, q.nSqTail, nNsId, nCdw10, nCdw11, nCdw12,
                                    ulPrp1, ulPrp2)) @@ @,
                        !.log = Append(@, Event("slot", q.usID, q.nSqTail)),
                        !.m_IoQueue.nSqTail = nSqTail]
        S3 == MmioWrite32(S1, NVME_DOORBELL_SQ_OFFSET(S.m_nDoorbellStride, q.usID),
                          nSqTail)
    IN  [S3 EXCEPT !.pc = "poll", !.call.usCid = q.nSqTail, !.call.submitted = TRUE]

SubmitCommand(S, uchOpcode, nNsId, nCdw10, nCdw11, nCdw12, ulPrp1, ulPrp2) ==
    LET q == S.m_IoQueue
        usCid == q.nSqTail
        S1 == [S EXCEPT !.sqMem = (q.nSqTail :>
                            Command(uchOpcode, usCid, nNsId, nCdw10, nCdw11, nCdw12,
                                    ulPrp1, ulPrp2)) @@ @,
                        !.log = Append(@, Event("slot", q.usID, q.nSqTail))]
        nSqTail == (q.nSqTail + 1) % q.nEntries
        S2 == [S1 EXCEPT !.m_IoQueue.nSqTail = nSqTail]
        S3 == MmioWrite32(S2, NVME_DOORBELL_SQ_OFFSET(S.m_nDoorbellStride, q.usID),
                          nSqTail)
    IN  [S3 EXCEPT !.pc = "poll", !.call.usCid = usCid, !.call.submitted = TRUE]

\* a match test that does not look at the submission queue id
CompletionMatchesAnyQueue(q, ce, usCid) ==
    /\ (BitAnd(ce.status, CQE_STATUS_PHASE_BIT) # 0) = q.bCqPhase
    /\ ce.cid = usCid

\* a submission that clears the completion event after it has rung the doorbell
SubmitStepClearLast(n) == <<"slot", "unmask", "ring", "clear">>[n]

\* SubmitCommand with NO_BUSY_WAIT: its n-th effect, in program order
SubmitStep(n) == <<"slot", "clear", "unmask", "ring">>[n]

\* SubmitCommand with NO_BUSY_WAIT on the I/O queue, one effect at a time; after
\* the last one the caller is in the event wait of PollForCompletion
SubmitCommandStep(S, uchOpcode, nNsId, nCdw10, nCdw11, nCdw12, ulPrp1, ulPrp2) ==
    LET q == S.m_IoQueue
        n == S.call.step
        nSqTail == (q.nSqTail + 1) % q.nEntries
        S1 == IF SubmitStep(n) = "slot"
              THEN [S EXCEPT !.sqMem = (q.nSqTail :>
                                 Command(uchOpcode, q.nSqTail, nNsId, nCdw10, nCdw11,
                                         nCdw12, ulPrp1, ulPrp2)) @@ @,
                             !.log = Append(@, Event("slot", q.usID, q.nSqTail)),
                             !.call.usCid = q.nSqTail]
              ELSE IF SubmitStep(n) = "clear"
              THEN [S EXCEPT !.m_Event = FALSE,
                             !.log = Append(@, Event("clear", 0, 0))]
              ELSE IF SubmitStep(n) = "unmask"
              THEN MmioWrite32(S, NVME_REG_INTMC, NVME_REG_INTM_VECTOR0)
              ELSE MmioWrite32([S EXCEPT !.m_IoQueue.nSqTail = nSqTail],
                               NVME_DOORBELL_SQ_OFFSET(S.m_nDoorbellStride, q.usID),
                               nSqTail)
    IN  IF n < 4 THEN [S1 EXCEPT !.call.step = n + 1]
        ELSE [S1 EXCEPT !.pc = "wait", !.call.step = 0, !.call.submitted = TRUE]

\* CSynchronizationEvent::WaitWithTimeout (1000000UL * nTimeoutHZ / HZ): whether
\* the wait gives up, nElapsed being the ticks waited
WaitTimedOut(nElapsed, nTimeoutHZ) ==
    LET nMicroSeconds == (1000000 * nTimeoutHZ) \div HZ
    IN  nElapsed * (1000000 \div HZ) >= nMicroSeconds

\* the INTA line: a completion the driver has not acknowledged is pending and
\* vector 0 is not masked
IntaAsserted(c) == c.cqTail # c.cqHead /\ c.intms[1] % 2 = 0

\* PollForCompletion: whether the entry at the head is the awaited completion
CompletionMatches(q, ce, usCid) ==
    /\ (BitAnd(ce.status, CQE_STATUS_PHASE_BIT) # 0) = q.bCqPhase
    /\ ce.cid = usCid
    /\ ce.sqid = q.usID

\* a poll that gives up too early
TimedOutEarly(nElapsed, nTimeoutHZ) == nElapsed + 2 > nTimeoutHZ

\* PollForCompletion: whether the poll gives up, nElapsed being
\* GetTicks () - nStart
TimedOut(nElapsed, nTimeoutHZ) == nElapsed > nTimeoutHZ

\* a poll that returns a failure status before it has advanced the head
ConsumeCompletionOkOnly(S, ce) ==
    IF CompletionResult(ce.status) # NVME_STATUS_OK
    THEN [S EXCEPT !.call.status = ce.status]
    ELSE MmioWrite32([S EXCEPT !.m_IoQueue.nCqHead = (@ + 1) % S.m_IoQueue.nEntries,
                               !.m_IoQueue.bCqPhase =
                                   IF (S.m_IoQueue.nCqHead + 1) % S.m_IoQueue.nEntries = 0
                                   THEN ~@ ELSE @,
                               !.call.status = ce.status],
                     NVME_DOORBELL_CQ_OFFSET(S.m_nDoorbellStride, S.m_IoQueue.usID),
                     (S.m_IoQueue.nCqHead + 1) % S.m_IoQueue.nEntries)

\* PollForCompletion on a match: the head advances, the phase toggles on a wrap,
\* the completion doorbell is written
\* a consumer that advances the head and never toggles the phase
ConsumeCompletionNoToggle(S, ce) ==
    MmioWrite32([S EXCEPT !.m_IoQueue.nCqHead = (@ + 1) % S.m_IoQueue.nEntries,
                          !.call.status = ce.status],
                NVME_DOORBELL_CQ_OFFSET(S.m_nDoorbellStride, S.m_IoQueue.usID),
                (S.m_IoQueue.nCqHead + 1) % S.m_IoQueue.nEntries)

ConsumeCompletion(S, ce) ==
    LET q == S.m_IoQueue
        nCqHead == (q.nCqHead + 1) % q.nEntries
        bCqPhase == IF nCqHead = 0 THEN ~q.bCqPhase ELSE q.bCqPhase
        S1 == [S EXCEPT !.m_IoQueue.nCqHead = nCqHead,
                        !.m_IoQueue.bCqPhase = bCqPhase,
                        !.call.status = ce.status]
    IN  MmioWrite32(S1, NVME_DOORBELL_CQ_OFFSET(S.m_nDoorbellStride, q.usID), nCqHead)

(***************************************************************************)
(* Block-device operations                                                 *)
(***************************************************************************)

\* what hist keeps of a call
Summary(c, val) ==
    [op |-> c.op, arg |-> c.arg, off |-> c.off, buf |-> c.pBuffer, cnt |-> c.ulCount, tag |-> c.tag,
     val |-> val, status |-> c.status, cid |-> c.usCid, xfer |-> c.pTransferBuffer,
     list |-> c.list, submitted |-> c.submitted]

\* the call returns val
Return(S, val) ==
    [S EXCEPT !.pc = "idle",
              !.ret = [op |-> S.call.op, arg |-> S.call.arg, val |-> val],
              !.hist = <<Summary(S.call, val)>> \o SubSeq(@, 1, IF Len(@) > 0 THEN 1 ELSE 0),
              !.call = NoCall]

\* a call begins
Enter(S, op, arg, pBuffer, ulCount, tag) ==
    [S EXCEPT !.log = <<>>,
              !.call = [NoCall EXCEPT !.op = op, !.arg = arg, !.pBuffer = pBuffer,
                                      !.ulCount = ulCount,
                                      !.off = S.m_ulOffset, !.tag = tag]]

\* operator new[] returned pNew
HeapNew(S, pNew) ==
    [S EXCEPT !.heapLive = IF pNew # 0 THEN @ \cup {pNew} ELSE @,
              !.log = Append(@, Event("new", pNew, 0))]

\* a delete [] that is left out
HeapDeleteNothing(S, p) == S

\* delete [] p (a null pointer is ignored)
HeapDelete(S, p) ==
    IF p = 0 THEN S
    ELSE [S EXCEPT !.heapLive = @ \ {p}, !.log = Append(@, Event("delete", p, 0))]

\* a memcpy that is left out
MemcpyNothing(m, dst, src, n) == m

\* memcpy of n 512-byte blocks from virtual address src to dst
Memcpy(m, dst, src, n) ==
    [b \in {PhysicalOf(dst + NVME_LBA_SIZE * k) : k \in 0..(n - 1)} |->
        LET k == CHOOSE k \in 0..(n - 1) : PhysicalOf(dst + NVME_LBA_SIZE * k) = b
        IN  MemRead(m, PhysicalOf(src + NVME_LBA_SIZE * k))] @@ m

\* the caller's buffer holds the payload with pattern tag
FillPayload(m, pBuffer, n, tag) ==
    [b \in {PhysicalOf(pBuffer + NVME_LBA_SIZE * k) : k \in 0..(n - 1)} |->
        LET k == CHOOSE k \in 0..(n - 1) : PhysicalOf(pBuffer + NVME_LBA_SIZE * k) = b
        IN  Payload(tag, k)] @@ m

\* IoPassThrough up to the call of PollForCompletion; when the PRP builder
\* fails the call is over (pc stays "idle") and NO_RESOURCE is its result
IoPassThrough(S, nNsId, nLba, nBlocks, pBuffer, bIsWrite) ==
    LET Submit(S1, b) ==
            IF ~b.ok THEN S1
            ELSE SubmitCommand(S1,
                               IF bIsWrite THEN NVME_IO_OPC_WRITE ELSE NVME_IO_OPC_READ,
                               nNsId, U64Lo32(nLba), U64Hi32(nLba), U32(nBlocks - 1),
                               b.prp1, b.prp2)
        Built(b) ==
            Submit([S EXCEPT !.m_Allocator = b.alloc,
                             !.call.list = b.list,
                             !.prpListMem = IF b.list # 0
                                            THEN (PhysicalOf(b.list) :> b.entries) @@ @
                                            ELSE @,
                             !.log = IF b.alloc # S.m_Allocator
                                     THEN Append(@, Event("alloc", b.list, 0))
                                     ELSE @],
                   b)
    IN  Built(BuildForBuffer(S.m_Allocator, pBuffer, nBlocks * NVME_LBA_SIZE))

\* IoPassThrough returns: the PRP descriptor set is dropped
IoPassThroughExit(S) ==
    IF S.call.list = 0 THEN S
    ELSE [S EXCEPT !.m_Allocator = PrpRelease(@, S.call.list),
                   !.log = Append(@, Event("free", S.call.list, 0))]

\* Read, from the call to the first wait (or to its return)
Read(S0, pBuffer, ulCount, pNew) ==
    LET bounce == ~IS_CACHE_ALIGNED(pBuffer, ulCount)
        pTransferBuffer == IF bounce THEN pNew ELSE pBuffer
        Passed(S3) ==
            IF S3.pc = "poll" THEN S3
            ELSE Return(HeapDelete(IoPassThroughExit(S3), S3.call.pDMABuffer),
                        NVME_STATUS_ERROR_NO_RESOURCE)
        Buffered(S1, nLBA) ==
            IF bounce /\ pNew = 0 THEN Return(S1, NVME_STATUS_ERROR_NO_RESOURCE)
            ELSE Passed(IoPassThrough(
                            [S1 EXCEPT !.call.pDMABuffer = IF bounce THEN pNew ELSE 0,
                                       !.call.pTransferBuffer = pTransferBuffer],
                            NSID, U64FromU32(nLBA), ulCount \div NVME_LBA_SIZE,
                            pTransferBuffer, FALSE))
        Entered(S) ==
            IF U64Low9(S.m_ulOffset) # 0 THEN Return(S, NVME_STATUS_ERROR_BAD_PARAM)
            ELSE IF ulCount = 0 \/ BitAnd(ulCount, NVME_LBA_SIZE - 1) # 0
            THEN Return(S, NVME_STATUS_ERROR_BAD_PARAM)
            ELSE Buffered(IF bounce THEN HeapNew(S, pNew) ELSE S, StartLBA(S.m_ulOffset))
    IN  Entered(Enter(S0, "Read", ulCount, pBuffer, ulCount, 0))

\* a Read that moves the byte cursor past what it has read
ReadExitAdvancing(S0, nRet) ==
    LET Copied(S, c) ==
            IF nRet # NVME_STATUS_OK THEN Return(HeapDelete(S, c.pDMABuffer), nRet)
            ELSE Return(HeapDelete([S EXCEPT !.m_ulOffset = U64AddSmall(@, c.ulCount)],
                                   c.pDMABuffer),
                        c.ulCount)
    IN  Copied(IoPassThroughExit(S0), S0.call)

\* Read, after IoPassThrough returned nRet
ReadExit(S0, nRet) ==
    LET Copied(S, c) ==
            IF nRet # NVME_STATUS_OK THEN Return(HeapDelete(S, c.pDMABuffer), nRet)
            ELSE IF c.pDMABuffer # 0
            THEN Return(HeapDelete([S EXCEPT !.mem = Memcpy(@, c.pBuffer, c.pDMABuffer,
                                                            c.ulCount \div NVME_LBA_SIZE)],
                                   c.pDMABuffer),
                        c.ulCount)
            ELSE Return(S, c.ulCount)
    IN  Copied(IoPassThroughExit(S0), S0.call)

\* Write, from the call to the first wait (or to its return); the caller's
\* buffer holds the payload with pattern tag
\* a build in which the guard is never compiled in
ReadOnlyNever(build) == FALSE

\* #ifdef NVME_READ_ONLY
ReadOnly(build) == "NVME_READ_ONLY" \in build

Write(S0, pBuffer, ulCount, pNew, tag) ==
    LET bounce == ~IS_CACHE_ALIGNED(pBuffer, ulCount)
        pTransferBuffer == IF bounce THEN pNew ELSE pBuffer
        nBlocks == ulCount \div NVME_LBA_SIZE
        Passed(S3) ==
            IF S3.pc = "poll" THEN S3
            ELSE Return(HeapDelete(IoPassThroughExit(S3), S3.call.pDMABuffer),
                        NVME_STATUS_ERROR_NO_RESOURCE)
        Buffered(S1, nLBA) ==
            IF bounce /\ pNew = 0 THEN Return(S1, NVME_STATUS_ERROR_NO_RESOURCE)
            ELSE Passed(IoPassThrough(
                            [S1 EXCEPT !.call.pDMABuffer = IF bounce THEN pNew ELSE 0,
                                       !.call.pTransferBuffer = pTransferBuffer,
                                       !.mem = IF bounce
                                               THEN Memcpy(@, pNew, pBuffer, nBlocks)
                                               ELSE @],
                            NSID, U64FromU32(nLBA), nBlocks, pTransferBuffer, TRUE))
        Entered(S) ==
            IF U64Low9(S.m_ulOffset) # 0 THEN Return(S, NVME_STATUS_ERROR_BAD_PARAM)
            ELSE IF ulCount = 0 \/ BitAnd(ulCount, NVME_LBA_SIZE - 1) # 0
            THEN Return(S, NVME_STATUS_ERROR_BAD_PARAM)
            ELSE IF ReadOnly(S.build) THEN Return(S, NVME_STATUS_ERROR_READ_ONLY)
            ELSE Buffered(IF bounce THEN HeapNew(S, pNew) ELSE S, StartLBA(S.m_ulOffset))
    IN  Entered([Enter(S0, "Write", ulCount, pBuffer, ulCount, tag)
                    EXCEPT !.mem = FillPayload(@, pBuffer, nBlocks, tag)])

\* a Write that reports every failure of its command as a controller error
WriteExitFlat(S0, nRet) ==
    IF nRet # NVME_STATUS_OK
    THEN Return(HeapDelete(IoPassThroughExit(S0), S0.call.pDMABuffer),
                NVME_STATUS_ERROR_CONTROLLER)
    ELSE Return(HeapDelete(IoPassThroughExit(S0), S0.call.pDMABuffer), S0.call.ulCount)

\* Write, after IoPassThrough returned nRet
WriteExit(S0, nRet) ==
    LET S == HeapDelete(IoPassThroughExit(S0), S0.call.pDMABuffer)
    IN  IF nRet # NVME_STATUS_OK THEN Return(S, nRet)
        ELSE Return(S, S0.call.ulCount)

\* a Flush that reports success without a command
FlushSkipped(S, nNsId) == Return(S, NVME_STATUS_OK)

\* Flush: NVM FLUSH on the I/O queue
Flush(S, nNsId) ==
    SubmitCommand(S, NVME_IO_OPC_FLUSH, nNsId, U32(0), U32(0), U32(0), 0, 0)

\* an IOCtl that takes every code for DEVICE_IOCTL_SYNC
IOCtlAnyCode(S0, ulCmd) ==
    SubmitCommand([Enter(S0, "IOCtl", ulCmd, 0, 0, 0) EXCEPT !.syncCalls = @ + 1],
                  NVME_IO_OPC_FLUSH, NSID, U32(0), U32(0), U32(0), 0, 0)

\* IOCtl, from the call to the first wait (or to its return)
IOCtl(S0, ulCmd) ==
    IF ulCmd = DEVICE_IOCTL_SYNC
    THEN Flush([Enter(S0, "IOCtl", ulCmd, 0, 0, 0) EXCEPT !.syncCalls = @ + 1], NSID)
    ELSE Return(Enter(S0, "IOCtl", ulCmd, 0, 0, 0), NVME_STATUS_ERROR_BAD_PARAM)

\* a Seek that refuses an offset that is no multiple of the block size
SeekAligned(S, ulOffset) ==
    IF ulOffset[1] % NVME_LBA_SIZE # 0
    THEN [S EXCEPT !.ret = [op |-> "Seek", arg |-> ulOffset, val |-> S.m_ulOffset],
                   !.log = <<>>]
    ELSE [S EXCEPT !.m_ulOffset = ulOffset,
                   !.ret = [op |-> "Seek", arg |-> ulOffset, val |-> ulOffset],
                   !.log = <<>>]

\* Seek
Seek(S, ulOffset) ==
    [S EXCEPT !.m_ulOffset = ulOffset,
              !.ret = [op |-> "Seek", arg |-> ulOffset, val |-> ulOffset],
              !.log = <<>>]

\* GetSize
GetSize(S) ==
    [S EXCEPT !.ret = [op |-> "GetSize", arg |-> 0, val |-> S.m_ulNamespaceSize],
              !.log = <<>>]

\* the call in progress goes on after SubmitCommand returned nRet
CallExit(S, nRet) ==
    IF S.call.op = "Read" THEN ReadExit(S, nRet)
    ELSE IF S.call.op = "Write" THEN WriteExit(S, nRet)
    ELSE Return(S, nRet)

(***************************************************************************)
(* Initialize.  One step, with the controller answering every register     *)
(* poll and every admin command in time and without error; what it reads   *)
(* (VER, CAP, the Identify data) are the controller's properties.          *)
(***************************************************************************)

\* a version check that looks at the major version only
VersionMajorOnly(nVersion) == (nVersion \div 2^16) % 2^16 = 1

\* the version check: major 1, minor 3 or 4
VersionSupported(nVersion) ==
    LET nMjr == (nVersion \div 2^16) % 2^16
        nMnr == (nVersion \div 2^8) % 2^8
    IN  ~(nMjr # 1 \/ (nMnr # 3 /\ nMnr # 4))

\* CreateAdminQueues / CreateIoQueue: the two rings of a queue
CreateQueue(a, q, nEntries) ==
    LET Both(sq, cq) ==
            IF cq.p = 0 THEN [ok |-> FALSE, alloc |-> cq.alloc, q |-> q]
            ELSE [ok |-> TRUE, alloc |-> cq.alloc,
                  q |-> [q EXCEPT !.pSqVirt = sq.p, !.pCqVirt = cq.p,
                                  !.nSqPhys = PhysicalOf(sq.p),
                                  !.nCqPhys = PhysicalOf(cq.p),
                                  !.nSqTail = 0, !.nCqHead = 0, !.bCqPhase = TRUE]]
        First(sq) ==
            IF sq.p = 0 THEN [ok |-> FALSE, alloc |-> sq.alloc, q |-> q]
            ELSE Both(sq, Allocate(sq.alloc, SizeofCompletion * nEntries, NVME_PAGE_SIZE,
                                   NVME_BLOCK_BOUNDARY))
    IN  First(Allocate(a, SizeofCommand * nEntries, NVME_PAGE_SIZE, NVME_BLOCK_BOUNDARY))

\* n admin commands were submitted and their completions consumed
AdminDone(q, n) ==
    [q EXCEPT !.nSqTail = (@ + n) % q.nEntries, !.nCqHead = (@ + n) % q.nEntries]

\* what the admin command submitted next returns when the controller completes
\* the first nAdminOk admin commands without error and fails the one after
AdminResult(q, nAdminOk) ==
    IF q.nSqTail < nAdminOk THEN NVME_STATUS_OK ELSE NVME_STATUS_ERROR_CONTROLLER

\* AdminCommand: one command on the admin queue, submitted and its completion
\* consumed; nRet is what it returns
AdminCommand(S, uchOpcode, nNsId, uCdw10, nRet) ==
    [S EXCEPT !.m_AdminQueue = AdminDone(@, 1),
              !.log = Append(@, Event("admin", uchOpcode,
                                      [nsid |-> nNsId, cdw10 |-> uCdw10, ret |-> nRet]))]

\* what the admin command that ran last returned
LastAdmin(S) == S.log[Len(S.log)].b.ret

\* MmioWrite64: the write is logged (no 64-bit register is modelled as latching)
MmioWrite64(S, nOffset, ulValue) ==
    [S EXCEPT !.log = Append(@, Event("mmio", nOffset, ulValue))]

\* CreateAdminQueues, after the rings were allocated: AQA, ASQ, ACQ
WriteAdminQueueRegisters(S) ==
    LET uAqa == (NVME_ADMIN_QUEUE_ENTRIES - 1) * 2^16 + (NVME_ADMIN_QUEUE_ENTRIES - 1)
    IN  MmioWrite64(MmioWrite64(MmioWrite32(S, NVME_REG_AQA, uAqa),
                                NVME_REG_ASQ, S.m_AdminQueue.nSqPhys),
                    NVME_REG_ACQ, S.m_AdminQueue.nCqPhys)

\* WaitReady (bOn).  A controller that answers in time brings CSTS.RDY to
\* CC.EN before the wait gives up; one that does not leaves CSTS.RDY as it is.
\* The event logged is the value waited for and what WaitReady returns.
WaitReady(S, bOn, bInTime) ==
    LET nRdy == IF bInTime
                THEN BitAnd(S.ctrl.cc, NVME_REG_CC_EN)
                ELSE S.ctrl.rdy
    IN  [S EXCEPT !.ctrl.rdy = nRdy,
                  !.log = Append(@, Event("ready", bOn,
                                          (BitAnd(nRdy, NVME_REG_CSTS_RDY) # 0) = bOn))]

\* a ready timeout taken from CAP.TO alone
ReadyTimeoutOfField(caps) ==
    LET nTimeoutHZ == MSEC2HZ((caps[2] \div 2^8) * 500)
    IN  IF nTimeoutHZ = 0 THEN 5 * HZ ELSE nTimeoutHZ

\* m_nTimeoutHZ as Initialize computes it.  NVME_REG_CAP_TO__MASK is the int
\* 0xFF << 24, which is negative and widens to 0xFFFFFFFFFF000000 for the AND
\* with the 64-bit CAP: bits 24..63 are kept and shifted right by 24.  (For
\* CAP values below 2^40, so that the product stays within 31 bits; the
\* result is then below 2^32 and not cut by the unsigned it is stored in.)
ReadyTimeoutOf(caps) ==
    LET masked == <<0, caps[2] - (caps[2] % 2^8), caps[3], caps[4]>>
        shifted == masked[2] \div 2^8 + masked[3] * 2^8
        nTimeoutHZ == MSEC2HZ(shifted * 500)
    IN  IF nTimeoutHZ = 0 THEN 5 * HZ ELSE nTimeoutHZ

\* a caller that takes every wait for a success
LastReadyIgnored(S) == TRUE

\* what the WaitReady that ran last returned
LastReady(S) == S.log[Len(S.log)].b

\* the value Initialize writes to CC to enable the controller
EnableValue(nCC) ==
    BitOr(AndNot(nCC, BitOr(NVME_REG_CC_IOCQES__MASK, NVME_REG_CC_IOCQES__MASK)),
          NVME_REG_CC_IOSQES_64B * 2^NVME_REG_CC_IOSQES__SHIFT
          + NVME_REG_CC_IOCQES_16B * 2^NVME_REG_CC_IOCQES__SHIFT
          + NVME_REG_CC_EN)

\* the first entry of the format table, whatever FLBAS says
SelectedFormatFirst(flbas, lbaf) == lbaf[1]

\* the LBA format Initialize looks at: entry FLBAS & 0xF of the format table
SelectedFormat(flbas, lbaf) == lbaf[BitAnd(flbas, 15) + 1]

\* Initialize; bOffInTime and bOnInTime say whether the controller answers the
\* two ready waits in time, nAdminOk how many admin commands it completes
\* without error, bPartOk what CPartitionManager::Initialize returns
Initialize(S, bOffInTime, bOnInTime, nAdminOk, bPartOk) ==
    LET c == S.ctrl
        failed == [S EXCEPT !.drvState = "failed",
                            !.ret = [op |-> "Initialize", arg |-> 0, val |-> FALSE],
                            !.log = <<>>]
        \* the partition manager, the device name service
        Registered(S7) ==
            IF ~bPartOk THEN S7
            ELSE [S7 EXCEPT !.log = Append(@, Event("register", 0, 0)),
                            !.drvState = "ready",
                            !.ret = [op |-> "Initialize", arg |-> 0, val |-> TRUE]]
        \* Identify controller
        Second(S5, id) ==
            LET S6 == AdminCommand(S5, NVME_ADMIN_OPC_IDENTIFY, 0, 1,
                                   AdminResult(S5.m_AdminQueue, nAdminOk))
            IN  IF LastAdmin(S6) # NVME_STATUS_OK THEN S6
                ELSE Registered([S6 EXCEPT !.m_Allocator = Free(id.alloc, id.p)])
        \* Identify namespace, the format checks
        First(S5, id) ==
            IF LastAdmin(S5) # NVME_STATUS_OK THEN S5
            ELSE IF 2^SelectedFormat(c.flbas, c.lbaf).lbads # NVME_LBA_SIZE
            THEN [S5 EXCEPT !.m_Allocator = Free(id.alloc, id.p)]
            ELSE IF SelectedFormat(c.flbas, c.lbaf).ms # 0
            THEN [S5 EXCEPT !.m_Allocator = Free(id.alloc, id.p),
                            !.m_ulNamespaceSize = U64Shl9(c.nsze)]
            ELSE Second([S5 EXCEPT !.m_ulNamespaceSize = U64Shl9(c.nsze)], id)
        Identified(S4, id) ==
            IF id.p = 0 THEN [S4 EXCEPT !.m_Allocator = id.alloc]
            ELSE First(AdminCommand([S4 EXCEPT !.m_Allocator = id.alloc],
                                    NVME_ADMIN_OPC_IDENTIFY, NSID, 0,
                                    AdminResult(S4.m_AdminQueue, nAdminOk)),
                       id)
        \* CreateIoQueue and its two admin commands
        uCdw10 == IOQID + (NVME_IO_QUEUE_ENTRIES - 1) * 2^16
        SqCreated(S3, ioq) ==
            IF LastAdmin(S3) # NVME_STATUS_OK THEN S3
            ELSE Identified([S3 EXCEPT !.m_IoQueue = ioq.q],
                            Allocate(ioq.alloc, 4096, NVME_PAGE_SIZE,
                                     NVME_BLOCK_BOUNDARY))
        CqCreated(S3, ioq) ==
            IF LastAdmin(S3) # NVME_STATUS_OK THEN S3
            ELSE SqCreated(AdminCommand(S3, NVME_ADMIN_OPC_CREATE_IO_SQ, 0, uCdw10,
                                        AdminResult(S3.m_AdminQueue, nAdminOk)),
                           ioq)
        IoCreated(S2, ioq) ==
            IF ~ioq.ok THEN [S2 EXCEPT !.m_Allocator = ioq.alloc]
            ELSE CqCreated(AdminCommand(
                               [S2 EXCEPT !.m_Allocator = ioq.alloc,
                                          !.m_IoQueue =
                                              [@ EXCEPT !.pSqVirt = ioq.q.pSqVirt,
                                                        !.pCqVirt = ioq.q.pCqVirt,
                                                        !.nSqPhys = ioq.q.nSqPhys,
                                                        !.nCqPhys = ioq.q.nCqPhys]],
                               NVME_ADMIN_OPC_CREATE_IO_CQ, 0, uCdw10,
                               AdminResult(S2.m_AdminQueue, nAdminOk)),
                           ioq)
        \* the controller was told to start
        Enabled(S3) ==
            IF ~LastReady(S3) THEN S3
            ELSE IoCreated(S3, CreateQueue(S3.m_Allocator, S.m_IoQueue,
                                           NVME_IO_QUEUE_ENTRIES))
        \* CreateAdminQueues, enabling the controller
        AdminCreated(S1, aq) ==
            IF ~aq.ok THEN [S1 EXCEPT !.m_Allocator = aq.alloc]
            ELSE Enabled(WaitReady(
                             (LET S2 == WriteAdminQueueRegisters(
                                            [S1 EXCEPT !.m_Allocator = aq.alloc,
                                                       !.m_AdminQueue = aq.q])
                              IN  MmioWrite32(S2, NVME_REG_CC,
                                              EnableValue(MmioReadCC(S2)))),
                             TRUE, bOnInTime))
        \* the controller was told to stop; with NO_BUSY_WAIT every vector is
        \* masked and the handler connected before the admin queues are made
        Disabled(S1) ==
            IF ~LastReady(S1) THEN S1
            ELSE AdminCreated(IF "NO_BUSY_WAIT" \in S.build
                              THEN MmioWrite32(S1, NVME_REG_INTMS,
                                               NVME_REG_INTM_ALL_VECTORS)
                              ELSE S1,
                              CreateQueue(S.m_Allocator, S.m_AdminQueue,
                                          NVME_ADMIN_QUEUE_ENTRIES))
    IN  IF ~VersionSupported(c.ver) THEN failed
        ELSE Disabled(WaitReady(
                          MmioWrite32([failed EXCEPT !.m_nDoorbellStride =
                                                         DoorbellStrideOf(c.cap)],
                                      NVME_REG_CC,
                                      AndNot(MmioReadCC(S), NVME_REG_CC_EN)),
                          FALSE, bOffInTime))

\* one ring is given back (a null pointer is skipped)
FreeRing(a, pVirt) == IF pVirt = 0 THEN a ELSE Free(a, pVirt)

\* a destructor that gives the rings back and leaves the controller running
DestroyNoReset(S, bInTime) ==
    [S EXCEPT !.m_Allocator =
                  FreeRing(FreeRing(FreeRing(FreeRing(@,
                      S.m_AdminQueue.pSqVirt), S.m_AdminQueue.pCqVirt),
                      S.m_IoQueue.pSqVirt), S.m_IoQueue.pCqVirt),
              !.m_AdminQueue.pSqVirt = 0,
              !.m_AdminQueue.pCqVirt = 0,
              !.m_IoQueue.pSqVirt = 0,
              !.m_IoQueue.pCqVirt = 0,
              !.log = <<>>,
              !.drvState = "destroyed",
              !.ret = [op |-> "Destroy", arg |-> 0, val |-> 0]]

\* ~CNVMeDevice: the controller is told to stop, the wait for it is not
\* looked at, the four rings are given back
Destroy(S, bInTime) ==
    LET Released(S1) ==
            [S1 EXCEPT !.m_Allocator =
                           FreeRing(FreeRing(FreeRing(FreeRing(@,
                               S.m_AdminQueue.pSqVirt), S.m_AdminQueue.pCqVirt),
                               S.m_IoQueue.pSqVirt), S.m_IoQueue.pCqVirt),
                       !.m_AdminQueue.pSqVirt = 0,
                       !.m_AdminQueue.pCqVirt = 0,
                       !.m_IoQueue.pSqVirt = 0,
                       !.m_IoQueue.pCqVirt = 0,
                       !.drvState = "destroyed",
                       !.ret = [op |-> "Destroy", arg |-> 0, val |-> 0]]
    IN  Released(WaitReady(MmioWrite32([S EXCEPT !.log = <<>>], NVME_REG_CC,
                                       AndNot(MmioReadCC(S), NVME_REG_CC_EN)),
                           FALSE, bInTime))

(***************************************************************************)
(* The controller                                                          *)
(***************************************************************************)

\* the bus address of byte nOff of the transfer a command describes
DmaAddress(cmd, lists, nOff) ==
    LET nLength == (U32Val(cmd.cdw12) + 1) * NVME_LBA_SIZE
        nFirst == NVME_PAGE_SIZE - (cmd.prp1 % NVME_PAGE_SIZE)
        nRest == nOff - nFirst
        entries == IF cmd.prp2 \in DOMAIN lists THEN lists[cmd.prp2] ELSE <<>>
        i == (nRest \div NVME_PAGE_SIZE) + 1
    IN  IF nOff < nFirst THEN cmd.prp1 + nOff
        ELSE IF nLength - nFirst <= NVME_PAGE_SIZE THEN cmd.prp2 + nRest
        ELSE (IF i <= Len(entries) THEN entries[i] ELSE 0) + (nRest % NVME_PAGE_SIZE)

\* the first LBA and the number of blocks of a Read or Write command
CmdLba(cmd) == U64FromDwords(cmd.cdw11, cmd.cdw10)
CmdBlocks(cmd) == U32Val(cmd.cdw12) + 1

CmdInRange(cmd, nsze) == U64LessEq(U64AddSmall(CmdLba(cmd), CmdBlocks(cmd)), nsze)

\* the namespace after a Write command
DevAfterWrite(d, cmd, m, lists) ==
    [l \in {U64AddSmall(CmdLba(cmd), k) : k \in 0..(CmdBlocks(cmd) - 1)} |->
        LET k == CHOOSE k \in 0..(CmdBlocks(cmd) - 1) : U64AddSmall(CmdLba(cmd), k) = l
        IN  MemRead(m, DmaAddress(cmd, lists, k * NVME_LBA_SIZE))] @@ d

\* memory after a Read command
MemAfterRead(m, cmd, d, lists) ==
    [b \in {DmaAddress(cmd, lists, k * NVME_LBA_SIZE) : k \in 0..(CmdBlocks(cmd) - 1)} |->
        LET k == CHOOSE k \in 0..(CmdBlocks(cmd) - 1) :
                     DmaAddress(cmd, lists, k * NVME_LBA_SIZE) = b
        IN  DevRead(d, U64AddSmall(CmdLba(cmd), k))] @@ m

(***************************************************************************)
(* Specification                                                           *)
(***************************************************************************)

\* the state after construction, with environment sc and controller c
InitIo(sc, c) ==
    /\ drvState = "constructed"
    /\ m_ulOffset = U64Zero
    /\ m_ulNamespaceSize = Uninit64
    /\ m_nDoorbellStride = 0
    /\ m_AdminQueue = QueueNew(AQID, NVME_ADMIN_QUEUE_ENTRIES)
    /\ m_IoQueue = QueueNew(IOQID, NVME_IO_QUEUE_ENTRIES)
    /\ m_Allocator = AllocatorNew(CoherentStart, CoherentEnd)
    /\ sqMem = <<>>
    /\ cqMem = <<>>
    /\ mem = <<>>
    /\ prpListMem = <<>>
    /\ heapLive = {}
    /\ pc = "idle"
    /\ call = NoCall
    /\ ret = [op |-> "none", arg |-> 0, val |-> 0]
    /\ hist = <<>>
    /\ log = <<>>
    /\ act = "none"
    /\ opCount = 0
    /\ nTimedOut = 0
    /\ m_Event = FALSE
    /\ hpc = "idle"
    /\ syncCalls = 0
    /\ scn = sc
    /\ ctrl = c
    /\ dev = <<>>

\* no status word under test
StatusIdle ==
    /\ stWord = 0
    /\ stResult = <<>>

\* no PRP builder under test
PrpIdle ==
    /\ prpArgs = <<>>
    /\ prpResult = <<>>

\* no queue under test
PhaseIdle ==
    /\ phQueue = <<>>
    /\ phCount = 0

\* no allocator under test
ArenaIdle ==
    /\ arena = <<>>
    /\ arenaLog = <<>>

\* no register value under test
RegIdle ==
    /\ regIn = <<>>
    /\ regOut = <<>>

\* no WaitReady call and no line discipline under test
SideIdle ==
    /\ wr = <<>>
    /\ ld = <<>>

\* the driver as constructed, left alone
IoIdle == InitIo(ScnWide, ControllerDefault)

Init ==
    /\ RegIdle
    /\ SideIdle
    /\ \E sc \in Scenarios : \E c \in sc.ctrls : InitIo(sc, c)
    /\ StatusIdle
    /\ PrpIdle
    /\ PhaseIdle
    /\ ArenaIdle

\* how many admin commands the controller of an environment completes
\* without error: all four, or any number where it may also miss the waits
AdminAnswers(sc) == IF FALSE \in sc.ready THEN 0..4 ELSE {4}

InitializeCall ==
    /\ drvState = "constructed"
    /\ pc = "idle"
    /\ \E bOffInTime \in scn.ready, bOnInTime \in scn.ready,
          nAdminOk \in AdminAnswers(scn), bPartOk \in scn.ready :
          Set(Initialize(Cur, bOffInTime, bOnInTime, nAdminOk, bPartOk))
    /\ act' = "Initialize"
    /\ UNCHANGED <<cqMem, dev, opCount, scn, nTimedOut, hpc, auxVars>>

SeekCall ==
    /\ drvState # "destroyed"
    /\ pc = "idle"
    /\ \E ulOffset \in scn.offsets : Set(Seek(Cur, ulOffset))
    /\ act' = "Seek"
    /\ UNCHANGED <<cqMem, dev, opCount, scn, nTimedOut, hpc, auxVars>>

GetSizeCall ==
    /\ drvState = "ready"
    /\ pc = "idle"
    /\ Set(GetSize(Cur))
    /\ act' = "GetSize"
    /\ UNCHANGED <<cqMem, dev, opCount, scn, nTimedOut, hpc, auxVars>>

ReadCall ==
    /\ drvState = "ready"
    /\ pc = "idle"
    /\ opCount < MaxOps
    /\ \E sh \in scn.rshapes, pNew \in scn.heap :
          Set(Read(Cur, sh.buf, sh.cnt, pNew))
    /\ act' = "Read"
    /\ opCount' = opCount + 1
    /\ UNCHANGED <<cqMem, dev, scn, nTimedOut, hpc, auxVars>>

WriteCall ==
    /\ drvState = "ready"
    /\ pc = "idle"
    /\ opCount < MaxOps
    /\ \E sh \in scn.wshapes, pNew \in scn.heap, tag \in scn.tags :
          Set(Write(Cur, sh.buf, sh.cnt, pNew, tag))
    /\ act' = "Write"
    /\ opCount' = opCount + 1
    /\ UNCHANGED <<cqMem, dev, scn, nTimedOut, hpc, auxVars>>

IOCtlCall ==
    /\ drvState = "ready"
    /\ pc = "idle"
    /\ opCount < MaxOps
    /\ \E ulCmd \in scn.ioctls : Set(IOCtl(Cur, ulCmd))
    /\ act' = "IOCtl"
    /\ opCount' = opCount + 1
    /\ UNCHANGED <<cqMem, dev, scn, nTimedOut, hpc, auxVars>>

\* the driver object is destroyed
DestroyCall ==
    /\ drvState # "destroyed"
    /\ pc = "idle"
    /\ \E bInTime \in scn.ready : Set(Destroy(Cur, bInTime))
    /\ act' = "Destroy"
    /\ UNCHANGED <<cqMem, dev, opCount, scn, nTimedOut, hpc, auxVars>>

\* PollForCompletion finds the awaited completion at the head
PollMatch ==
    /\ pc = "poll"
    /\ CompletionMatches(m_IoQueue, CqRead(cqMem, m_IoQueue.nCqHead), call.usCid)
    /\ LET ce == CqRead(cqMem, m_IoQueue.nCqHead)
       IN  Set(CallExit(ConsumeCompletion(Cur, ce), CompletionResult(ce.status)))
    /\ act' = "PollMatch"
    /\ UNCHANGED <<cqMem, dev, opCount, scn, nTimedOut, hpc, auxVars>>

\* the timer ticks while PollForCompletion finds no match
PollTick ==
    /\ pc = "poll"
    /\ ~CompletionMatches(m_IoQueue, CqRead(cqMem, m_IoQueue.nCqHead), call.usCid)
    /\ scn.silent
    /\ ~TimedOut(call.nElapsed, POLL_TIMEOUT_HZ)
    /\ call' = [call EXCEPT !.nElapsed = @ + 1]
    /\ act' = "PollTick"
    /\ UNCHANGED <<drvState, m_ulOffset, m_ulNamespaceSize, m_nDoorbellStride,
                   m_AdminQueue, m_IoQueue, m_Allocator, sqMem, cqMem, mem, prpListMem,
                   heapLive, pc, ret, hist, log, opCount, syncCalls, scn, ctrl, dev,
                   nTimedOut, m_Event, hpc, auxVars>>

\* PollForCompletion gives up: no match and the ticks have run out
PollTimeout ==
    /\ pc = "poll"
    /\ ~CompletionMatches(m_IoQueue, CqRead(cqMem, m_IoQueue.nCqHead), call.usCid)
    /\ TimedOut(call.nElapsed, POLL_TIMEOUT_HZ)
    /\ Set(CallExit(Cur, NVME_STATUS_ERROR_TIMEOUT))
    /\ act' = "PollTimeout"
    /\ nTimedOut' = nTimedOut + 1
    /\ UNCHANGED <<cqMem, dev, opCount, scn, hpc, auxVars>>

\* the controller fetches the next command, executes it and posts its completion
CtrlExecute ==
    /\ ctrl.sqHead # ctrl.sqTail
    /\ (ctrl.cqTail + 1) % NVME_IO_QUEUE_ENTRIES # ctrl.cqHead
    /\ LET cmd == SqRead(sqMem, ctrl.sqHead)
           data == cmd.opc \in {NVME_IO_OPC_READ, NVME_IO_OPC_WRITE}
           nSqHead == (ctrl.sqHead + 1) % NVME_IO_QUEUE_ENTRIES
           nCqTail == (ctrl.cqTail + 1) % NVME_IO_QUEUE_ENTRIES
       IN  \E st \in scn.statuses \cup {LbaRangeStatus} :
              /\ (st = LbaRangeStatus) = (data /\ ~CmdInRange(cmd, ctrl.nsze))
              /\ cqMem' = (ctrl.cqTail :>
                               [sqhead |-> nSqHead, sqid |-> IOQID, cid |-> cmd.cid,
                                status |-> StatusWord(st, ctrl.cqPhase)]) @@ cqMem
              /\ ctrl' = [ctrl EXCEPT !.sqHead = nSqHead, !.cqTail = nCqTail,
                                      !.cqPhase = IF nCqTail = 0 THEN 1 - @ ELSE @]
              /\ dev' = IF cmd.opc = NVME_IO_OPC_WRITE /\ st.sct = 0 /\ st.sc = 0
                        THEN DevAfterWrite(dev, cmd, mem, prpListMem)
                        ELSE dev
              /\ mem' = IF cmd.opc = NVME_IO_OPC_READ /\ st.sct = 0 /\ st.sc = 0
                        THEN MemAfterRead(mem, cmd, dev, prpListMem)
                        ELSE mem
    /\ act' = "CtrlExecute"
    /\ UNCHANGED <<drvState, m_ulOffset, m_ulNamespaceSize, m_nDoorbellStride,
                   m_AdminQueue, m_IoQueue, m_Allocator, sqMem, prpListMem, heapLive,
                   pc, call, ret, hist, log, opCount, syncCalls, scn, nTimedOut,
                   m_Event, hpc, auxVars>>

Next ==
    \/ InitializeCall
    \/ SeekCall
    \/ GetSizeCall
    \/ ReadCall
    \/ WriteCall
    \/ IOCtlCall
    \/ DestroyCall
    \/ PollMatch
    \/ PollTick
    \/ PollTimeout
    \/ CtrlExecute

Spec == Init /\ [][Next]_vars

(***************************************************************************)
(* The status decoding of PollForCompletion on its own: one matched        *)
(* completion entry with an arbitrary 16-bit status word.                  *)
(***************************************************************************)

\* u16 status
StatusWords == 0..(2^16 - 1)

InitStatus ==
    /\ RegIdle
    /\ SideIdle
    /\ IoIdle
    /\ stWord \in StatusWords
    /\ stResult = <<>>
    /\ PrpIdle
    /\ PhaseIdle
    /\ ArenaIdle

\* the branch of PollForCompletion taken for a matched entry returns
DecodeStatus ==
    /\ stResult = <<>>
    /\ stResult' = <<CompletionResult(stWord)>>
    /\ UNCHANGED <<ioVars, regVars, sideVars, stWord, prpVars, phVars, arVars>>

SpecStatus == InitStatus /\ [][DecodeStatus]_vars

(***************************************************************************)
(* The PRP builder on its own: one builder, one buffer, BuildForBuffer and *)
(* then the builder's destructor.                                          *)
(***************************************************************************)

\* page bases of the buffers handed to the builder
PrpBufferPages == {UserBase, UserBase + 3 * PRP_PAGE_SIZE}

PrpOffsets == {0, 1, 2048, PRP_PAGE_SIZE - 1}

PrpLengths == {1, 512, PRP_PAGE_SIZE, PRP_PAGE_SIZE + 1, 2 * PRP_PAGE_SIZE,
               2 * PRP_PAGE_SIZE + 1, 10 * PRP_PAGE_SIZE, 16 * PRP_PAGE_SIZE}

\* the allocator the builder draws its list page from: untouched, holding one
\* freed block, or with less than a block left
AllocatorRecycled ==
    LET First(r) == Free(r.alloc, r.p)
    IN  First(Allocate(AllocatorNew(CoherentStart, CoherentEnd), NVME_BLOCK_SIZE,
                       NVME_BLOCK_ALIGN, NVME_BLOCK_BOUNDARY))

AllocatorExhausted == AllocatorNew(CoherentEnd - NVME_PAGE_SIZE, CoherentEnd)

PrpAllocators == {AllocatorNew(CoherentStart, CoherentEnd), AllocatorRecycled,
                  AllocatorExhausted}

InitPrp ==
    /\ RegIdle
    /\ SideIdle
    /\ IoIdle
    /\ StatusIdle
    /\ PhaseIdle
    /\ ArenaIdle
    /\ \E a \in PrpAllocators, pPage \in PrpBufferPages, nOff \in PrpOffsets,
          ulLength \in PrpLengths :
          prpArgs = [a |-> a, pBuffer |-> pPage + nOff, ulLength |-> ulLength]
    /\ prpResult = <<>>

\* BuildForBuffer (pBuffer, ulLength) on a fresh builder
BuildPrp ==
    /\ prpResult = <<>>
    /\ prpResult' = <<BuildForBuffer(prpArgs.a, prpArgs.pBuffer, prpArgs.ulLength)>>
    /\ UNCHANGED <<ioVars, regVars, sideVars, stVars, prpArgs, phVars, arVars>>

\* the builder is destroyed: a list page goes back to the allocator
ReleasePrp ==
    /\ Len(prpResult) = 1
    /\ LET Released(r) ==
               IF r.list = 0 THEN r
               ELSE [ok |-> r.ok, alloc |-> PrpRelease(r.alloc, r.list), prp1 |-> 0,
                     prp2 |-> 0, list |-> 0, entries |-> <<>>]
       IN  prpResult' = Append(prpResult, Released(prpResult[1]))
    /\ UNCHANGED <<ioVars, regVars, sideVars, stVars, prpArgs, phVars, arVars>>

NextPrp ==
    \/ BuildPrp
    \/ ReleasePrp

SpecPrp == InitPrp /\ [][NextPrp]_vars

(***************************************************************************)
(* The completion side of one queue on its own: the queue as                *)
(* CreateAdminQueues or CreateIoQueue leaves it, then one matched           *)
(* completion after the other consumed by PollForCompletion.               *)
(***************************************************************************)

\* the admin queue and the I/O queue, just created
PhaseQueues ==
    {CreateQueue(AllocatorNew(CoherentStart, CoherentEnd), QueueNew(usID, nEntries),
                 nEntries).q :
        usID \in {0, IOQID}, nEntries \in {NVME_ADMIN_QUEUE_ENTRIES, NVME_IO_QUEUE_ENTRIES}}

InitPhase ==
    /\ RegIdle
    /\ SideIdle
    /\ IoIdle
    /\ StatusIdle
    /\ PrpIdle
    /\ ArenaIdle
    /\ phQueue \in PhaseQueues
    /\ phCount = 0

\* PollForCompletion finds a match at the head of the queue and consumes it
ConsumeOne ==
    /\ phCount < MaxWraps * phQueue.nEntries
    /\ \E st \in {StatusOk, StatusGeneric} :
          LET ce == [sqhead |-> 0, sqid |-> phQueue.usID, cid |-> 0,
                     status |-> StatusWord(st, IF phQueue.bCqPhase THEN 1 ELSE 0)]
          IN  phQueue' = ConsumeCompletion([Cur EXCEPT !.m_IoQueue = phQueue],
                                           ce).m_IoQueue
    /\ phCount' = phCount + 1
    /\ UNCHANGED <<ioVars, regVars, sideVars, stVars, prpVars, arVars>>

SpecPhase == InitPhase /\ [][ConsumeOne]_vars

(***************************************************************************)
(* The allocator on its own: a block is allocated and freed again, over    *)
(* and over.                                                               *)
(***************************************************************************)

\* where the arena begins: at a page, a header short of a page, and unaligned
ArenaStarts == {CoherentStart, CoherentStart + NVME_PAGE_SIZE - HeaderSize,
                CoherentStart + 100, CoherentStart + NVME_PAGE_SIZE - 1}

\* an arena that has served a request too large for a block before
ArenaUsed ==
    Allocate(AllocatorNew(CoherentStart, CoherentEnd), 2 * NVME_PAGE_SIZE, NVME_PAGE_SIZE,
             NVME_BLOCK_BOUNDARY).alloc

Arenas == {AllocatorNew(nStart, CoherentEnd) : nStart \in ArenaStarts} \cup {ArenaUsed}

\* requests served by a block: [nSize, nAlign], the boundary being 1 MiB
BlockRequests == {[nSize |-> NVME_BLOCK_SIZE, nAlign |-> NVME_BLOCK_ALIGN],
                  [nSize |-> NVME_LBA_SIZE, nAlign |-> CacheLine],
                  [nSize |-> 1, nAlign |-> 1]}

InitArena ==
    /\ RegIdle
    /\ SideIdle
    /\ IoIdle
    /\ StatusIdle
    /\ PrpIdle
    /\ PhaseIdle
    /\ arena \in Arenas
    /\ arenaLog = <<>>

\* true when the block allocated last has not been freed yet
BlockOut == arenaLog # <<>> /\ arenaLog[Len(arenaLog)].op = "Allocate"

\* Allocate (nSize, nAlign, NVME_BLOCK_BOUNDARY)
ArenaAllocate ==
    /\ ~BlockOut
    /\ Len(arenaLog) < 2 * MaxRounds
    /\ \E rq \in BlockRequests :
          LET Done(r) ==
                 /\ arena' = r.alloc
                 /\ arenaLog' = Append(arenaLog,
                                       [op |-> "Allocate", nSize |-> rq.nSize, p |-> r.p,
                                        before |-> arena.m_nMemStart,
                                        after |-> r.alloc.m_nMemStart])
          IN  Done(Allocate(arena, rq.nSize, rq.nAlign, NVME_BLOCK_BOUNDARY))
    /\ UNCHANGED <<ioVars, regVars, sideVars, stVars, prpVars, phVars>>

\* Free (the block allocated last)
ArenaFree ==
    /\ BlockOut
    /\ arenaLog[Len(arenaLog)].p # 0
    /\ LET Done(pBlock, a) ==
               /\ arena' = a
               /\ arenaLog' = Append(arenaLog,
                                     [op |-> "Free", nSize |-> 0, p |-> pBlock,
                                      before |-> arena.m_nMemStart,
                                      after |-> a.m_nMemStart])
       IN  Done(arenaLog[Len(arenaLog)].p, Free(arena, arenaLog[Len(arenaLog)].p))
    /\ UNCHANGED <<ioVars, regVars, sideVars, stVars, prpVars, phVars>>

NextArena ==
    \/ ArenaAllocate
    \/ ArenaFree

SpecArena == InitArena /\ [][NextArena]_vars

(***************************************************************************)
(* The allocator under any sequence of calls: requests of every kind, any  *)
(* block that is out freed at any time.                                    *)
(***************************************************************************)

\* requests [nSize, nAlign, nBoundary]: the powers of two with nAlign <= nBoundary
\* that pass the assertions of Allocate, served by a block or not
Requests ==
    {[nSize |-> NVME_BLOCK_SIZE, nAlign |-> NVME_BLOCK_ALIGN, nBoundary |-> NVME_BLOCK_BOUNDARY],
     [nSize |-> NVME_LBA_SIZE, nAlign |-> CacheLine, nBoundary |-> NVME_BLOCK_BOUNDARY],
     [nSize |-> 1, nAlign |-> 1, nBoundary |-> 1],
     [nSize |-> 100, nAlign |-> 2 * NVME_PAGE_SIZE, nBoundary |-> NVME_BLOCK_BOUNDARY],
     [nSize |-> 2 * NVME_PAGE_SIZE, nAlign |-> NVME_PAGE_SIZE, nBoundary |-> 4 * NVME_PAGE_SIZE],
     [nSize |-> 3 * NVME_PAGE_SIZE, nAlign |-> CacheLine, nBoundary |-> 2 * NVME_BLOCK_BOUNDARY],
     [nSize |-> NVME_PAGE_SIZE, nAlign |-> NVME_PAGE_SIZE, nBoundary |-> 2 * NVME_BLOCK_BOUNDARY],
     [nSize |-> 12 * NVME_PAGE_SIZE, nAlign |-> NVME_PAGE_SIZE, nBoundary |-> NVME_BLOCK_BOUNDARY]}

\* the pointers Allocate has returned and Free has not got back
BlocksOut ==
    {arenaLog[i].p : i \in {j \in 1..Len(arenaLog) :
                               /\ arenaLog[j].op = "Allocate"
                               /\ arenaLog[j].p # 0
                               /\ \A k \in (j + 1)..Len(arenaLog) :
                                      arenaLog[k].p # arenaLog[j].p}}

InitBlocks ==
    /\ RegIdle
    /\ SideIdle
    /\ IoIdle
    /\ StatusIdle
    /\ PrpIdle
    /\ PhaseIdle
    /\ arena \in Arenas
    /\ arenaLog = <<>>

\* Allocate (nSize, nAlign, nBoundary)
BlocksAllocate ==
    /\ Len(arenaLog) < MaxCalls
    /\ \E rq \in Requests :
          LET Done(r) ==
                 /\ arena' = r.alloc
                 /\ arenaLog' = Append(arenaLog,
                                       [op |-> "Allocate", nSize |-> rq.nSize,
                                        nAlign |-> rq.nAlign, nBoundary |-> rq.nBoundary,
                                        p |-> r.p, before |-> arena.m_nMemStart,
                                        after |-> r.alloc.m_nMemStart])
          IN  Done(Allocate(arena, rq.nSize, rq.nAlign, rq.nBoundary))
    /\ UNCHANGED <<ioVars, regVars, sideVars, stVars, prpVars, phVars>>

\* Free (pBlock) of a block that is out
BlocksFree ==
    /\ Len(arenaLog) < MaxCalls
    /\ \E pBlock \in BlocksOut :
          LET Done(a) ==
                 /\ arena' = a
                 /\ arenaLog' = Append(arenaLog,
                                       [op |-> "Free", nSize |-> 0, nAlign |-> 1,
                                        nBoundary |-> 1, p |-> pBlock,
                                        before |-> arena.m_nMemStart,
                                        after |-> a.m_nMemStart])
          IN  Done(Free(arena, pBlock))
    /\ UNCHANGED <<ioVars, regVars, sideVars, stVars, prpVars, phVars>>

NextBlocks ==
    \/ BlocksAllocate
    \/ BlocksFree

SpecBlocks == InitBlocks /\ [][NextBlocks]_vars

(***************************************************************************)
(* The allocator of an initialised driver while the same transfer is       *)
(* repeated: each Read or Write builds a PRP descriptor set for its buffer  *)
(* in IoPassThrough and drops it on return; the destructor gives the rings  *)
(* back.                                                                   *)
(***************************************************************************)

\* transfer lengths: without a list, with a list of one page (up to 512
\* entries), and with a list of two pages
RepeatLengths == {NVME_LBA_SIZE, 3 * PRP_PAGE_SIZE, 16 * PRP_PAGE_SIZE,
                  513 * PRP_PAGE_SIZE, 514 * PRP_PAGE_SIZE,
                  514 * PRP_PAGE_SIZE + NVME_LBA_SIZE}

RepeatBuffers == {BufPage, BufMid}

\* the calls of arenaLog that built a descriptor set
BuildCalls == {i \in 1..Len(arenaLog) : arenaLog[i].op = "Build"}

InitRepeat ==
    /\ RegIdle
    /\ SideIdle
    /\ IoIdle
    /\ StatusIdle
    /\ PhaseIdle
    /\ arena = Initialize(Cur, TRUE, TRUE, 4, TRUE).m_Allocator
    /\ arenaLog = <<>>
    /\ \E pBuffer \in RepeatBuffers, ulLength \in RepeatLengths :
          prpArgs = [a |-> arena, pBuffer |-> pBuffer, ulLength |-> ulLength]
    /\ prpResult = <<>>

\* IoPassThrough: PrpBuilder.BuildForBuffer (pBuffer, nBlocks * NVME_LBA_SIZE)
RepeatBuild ==
    /\ prpResult = <<>>
    /\ prpArgs.a # <<>>
    /\ Cardinality(BuildCalls) < MaxRounds
    /\ LET Done(r) ==
               /\ prpResult' = <<r>>
               /\ arena' = r.alloc
               /\ arenaLog' = Append(arenaLog,
                                     [op |-> "Build", ok |-> r.ok, p |-> r.list,
                                      before |-> arena.m_nMemStart,
                                      after |-> r.alloc.m_nMemStart,
                                      head |-> r.alloc.m_pFreeList])
       IN  Done(BuildForBuffer(arena, prpArgs.pBuffer, prpArgs.ulLength))
    /\ UNCHANGED <<ioVars, regVars, sideVars, stVars, prpArgs, phVars>>

\* IoPassThrough returns: ~CNVMePRP
RepeatRelease ==
    /\ Len(prpResult) = 1
    /\ LET Done(list, a) ==
               /\ prpResult' = <<>>
               /\ arena' = a
               /\ arenaLog' = Append(arenaLog,
                                     [op |-> "Release", ok |-> TRUE, p |-> list,
                                      before |-> arena.m_nMemStart,
                                      after |-> a.m_nMemStart,
                                      head |-> a.m_pFreeList])
       IN  Done(prpResult[1].list, PrpRelease(arena, prpResult[1].list))
    /\ UNCHANGED <<ioVars, regVars, sideVars, stVars, prpArgs, phVars>>

\* ~CNVMeDevice gives the four rings back
RepeatDestroy ==
    /\ prpResult = <<>>
    /\ prpArgs.a # <<>>
    /\ LET rings == Initialize(Cur, TRUE, TRUE, 4, TRUE)
           Done(a) ==
               /\ arena' = a
               /\ arenaLog' = Append(arenaLog,
                                     [op |-> "Destroy", ok |-> TRUE,
                                      p |-> rings.m_IoQueue.pCqVirt,
                                      before |-> arena.m_nMemStart,
                                      after |-> a.m_nMemStart,
                                      head |-> a.m_pFreeList])
       IN  Done(FreeRing(FreeRing(FreeRing(FreeRing(arena,
                    rings.m_AdminQueue.pSqVirt), rings.m_AdminQueue.pCqVirt),
                    rings.m_IoQueue.pSqVirt), rings.m_IoQueue.pCqVirt))
    /\ prpArgs' = [prpArgs EXCEPT !.a = <<>>]
    /\ UNCHANGED <<ioVars, regVars, sideVars, stVars, prpResult, phVars>>

NextRepeat ==
    \/ RepeatBuild
    \/ RepeatRelease
    \/ RepeatDestroy

SpecRepeat == InitRepeat /\ [][NextRepeat]_vars

(***************************************************************************)
(* The driver with a controller that answers late: it executes commands    *)
(* only while no call is in progress, so every completion arrives after    *)
(* its command was given up.                                               *)
(***************************************************************************)

InitDrift ==
    /\ RegIdle
    /\ SideIdle
    /\ InitIo(ScnDrift, ControllerDefault)
    /\ StatusIdle
    /\ PrpIdle
    /\ PhaseIdle
    /\ ArenaIdle

\* IOCtl (DEVICE_IOCTL_SYNC), as many times as the run allows
DriftSyncCall ==
    /\ drvState = "ready"
    /\ pc = "idle"
    /\ opCount < MaxCommands
    /\ Set(IOCtl(Cur, DEVICE_IOCTL_SYNC))
    /\ act' = "IOCtl"
    /\ opCount' = opCount + 1
    /\ UNCHANGED <<cqMem, dev, scn, nTimedOut, hpc, auxVars>>

\* the controller executes a command whose call has returned already
DriftCtrlExecute ==
    /\ pc = "idle"
    /\ CtrlExecute

NextDrift ==
    \/ InitializeCall
    \/ DriftSyncCall
    \/ PollMatch
    \/ PollTick
    \/ PollTimeout
    \/ DriftCtrlExecute

SpecDrift == InitDrift /\ [][NextDrift]_vars

(***************************************************************************)
(* The interrupt build (NO_BUSY_WAIT): IOCtl (DEVICE_IOCTL_SYNC) calls     *)
(* with SubmitCommand taken one effect at a time, the controller, and the  *)
(* interrupt handler in two steps, in every interleaving.                  *)
(***************************************************************************)

InitIrq ==
    /\ RegIdle
    /\ SideIdle
    /\ InitIo(ScnInterrupt, ControllerDefault)
    /\ StatusIdle
    /\ PrpIdle
    /\ PhaseIdle
    /\ ArenaIdle

\* IOCtl (DEVICE_IOCTL_SYNC) is entered
IrqSyncCall ==
    /\ drvState = "ready"
    /\ pc = "idle"
    /\ "NO_BUSY_WAIT" \in scn.build
    /\ opCount < MaxOps
    /\ Set([Enter(Cur, "IOCtl", DEVICE_IOCTL_SYNC, 0, 0, 0)
                EXCEPT !.syncCalls = @ + 1, !.pc = "submit", !.call.step = 1])
    /\ act' = "IOCtl"
    /\ opCount' = opCount + 1
    /\ UNCHANGED <<cqMem, dev, scn, nTimedOut, hpc, auxVars>>

\* the next effect of SubmitCommand
IrqSubmitStep ==
    /\ pc = "submit"
    /\ Set(SubmitCommandStep(Cur, NVME_IO_OPC_FLUSH, NSID, U32(0), U32(0), U32(0), 0, 0))
    /\ act' = "SubmitStep"
    /\ UNCHANGED <<cqMem, dev, opCount, scn, nTimedOut, hpc, auxVars>>

\* the event is signalled: WaitWithTimeout returns FALSE, the poll loop begins
WaitWake ==
    /\ pc = "wait"
    /\ m_Event
    /\ pc' = "poll"
    /\ act' = "WaitWake"
    /\ UNCHANGED <<drvState, m_ulOffset, m_ulNamespaceSize, m_nDoorbellStride,
                   m_AdminQueue, m_IoQueue, m_Allocator, sqMem, cqMem, mem, prpListMem,
                   heapLive, call, ret, hist, log, opCount, syncCalls, scn, ctrl, dev,
                   nTimedOut, m_Event, hpc, auxVars>>

\* the timer ticks while the caller waits for the event
WaitTick ==
    /\ pc = "wait"
    /\ ~m_Event
    /\ ~WaitTimedOut(call.nElapsed, POLL_TIMEOUT_HZ)
    /\ call' = [call EXCEPT !.nElapsed = @ + 1]
    /\ act' = "WaitTick"
    /\ UNCHANGED <<drvState, m_ulOffset, m_ulNamespaceSize, m_nDoorbellStride,
                   m_AdminQueue, m_IoQueue, m_Allocator, sqMem, cqMem, mem, prpListMem,
                   heapLive, pc, ret, hist, log, opCount, syncCalls, scn, ctrl, dev,
                   nTimedOut, m_Event, hpc, auxVars>>

\* WaitWithTimeout returns TRUE: the command is given up
WaitTimeout ==
    /\ pc = "wait"
    /\ ~m_Event
    /\ WaitTimedOut(call.nElapsed, POLL_TIMEOUT_HZ)
    /\ Set(CallExit(Cur, NVME_STATUS_ERROR_TIMEOUT))
    /\ act' = "WaitTimeout"
    /\ nTimedOut' = nTimedOut + 1
    /\ UNCHANGED <<cqMem, dev, opCount, scn, hpc, auxVars>>

\* InterruptHandler, first statement: vector 0 is masked
HandlerMask ==
    /\ hpc = "idle"
    /\ Set(MmioWrite32(Cur, NVME_REG_INTMS, NVME_REG_INTM_VECTOR0))
    /\ hpc' = "set"
    /\ act' = "HandlerMask"
    /\ UNCHANGED <<cqMem, dev, opCount, scn, nTimedOut, auxVars>>

\* InterruptHandler, last statement: the event is signalled
HandlerSet ==
    /\ hpc = "set"
    /\ m_Event' = TRUE
    /\ hpc' = "idle"
    /\ act' = "HandlerSet"
    /\ UNCHANGED <<drvState, m_ulOffset, m_ulNamespaceSize, m_nDoorbellStride,
                   m_AdminQueue, m_IoQueue, m_Allocator, sqMem, cqMem, mem, prpListMem,
                   heapLive, pc, call, ret, hist, log, opCount, syncCalls, scn, ctrl,
                   dev, nTimedOut, auxVars>>

\* the INTA line is asserted and the handler is entered
InterruptCall ==
    /\ drvState = "ready"
    /\ "NO_BUSY_WAIT" \in scn.build
    /\ IntaAsserted(ctrl)
    /\ HandlerMask

NextIrq ==
    \/ InitializeCall
    \/ IrqSyncCall
    \/ IrqSubmitStep
    \/ WaitWake
    \/ WaitTick
    \/ WaitTimeout
    \/ PollMatch
    \/ PollTick
    \/ PollTimeout
    \/ CtrlExecute
    \/ InterruptCall
    \/ HandlerSet

SpecIrq == InitIrq /\ [][NextIrq]_vars

(***************************************************************************)
(* Termination.  The timer interrupt keeps the tick counter advancing and   *)
(* a running loop takes its next step: weak fairness of the steps of the    *)
(* driver and of the ticks, none of the controller.  WaitReady is run on    *)
(* its own, against a CSTS.RDY bit that the controller changes at will.     *)
(***************************************************************************)

\* the interrupt build with a controller that may stay silent; its flushes are
\* entered by IrqSyncCall
ScnLiveIrq == [ScnInterrupt EXCEPT !.name = "live-interrupt", !.ioctls = {}]

\* no call is made on the driver: WaitReady is looked at alone
ScnReadyWait ==
    [ScnInterrupt EXCEPT !.name = "waitready", !.offsets = {}, !.ioctls = {},
                         !.ready = {}, !.build = {}]

\* the values m_nTimeoutHZ may hold: none, one tick, and the default of 5 s
ReadyTimeouts == {0, 1, MSEC2HZ(5000)}

\* a WaitReady that never gives up
GivesUpNever(nElapsed, nTimeoutHZ) == FALSE

\* WaitReady: GetTicks () - nStart >= m_nTimeoutHZ
GivesUp(nElapsed, nTimeoutHZ) == nElapsed >= nTimeoutHZ

InitLive ==
    /\ RegIdle
    /\ StatusIdle
    /\ PrpIdle
    /\ PhaseIdle
    /\ ArenaIdle
    /\ ld = <<>>
    /\ \/ /\ \E sc \in {ScnSilent, ScnLiveIrq} : InitIo(sc, ControllerDefault)
          /\ wr = <<>>
       \/ /\ InitIo(ScnReadyWait, ControllerDefault)
          /\ \E nTimeoutHZ \in ReadyTimeouts, rdy \in BOOLEAN :
                wr = [pc |-> "idle", m_nTimeoutHZ |-> nTimeoutHZ, bOn |-> FALSE,
                      nElapsed |-> 0, bRead |-> FALSE, bLast |-> FALSE,
                      ret |-> "none", rdy |-> rdy]

\* WaitReady (bOn) is entered: nStart = GetTicks ()
ReadyCall ==
    /\ wr # <<>>
    /\ wr.pc = "idle"
    /\ \E bOn \in BOOLEAN :
          wr' = [wr EXCEPT !.pc = "read", !.bOn = bOn, !.nElapsed = 0, !.bRead = FALSE,
                           !.ret = "none"]
    /\ UNCHANGED <<ioVars, stVars, prpVars, phVars, arVars, regVars, ld>>

\* MmioRead32 (NVME_REG_CSTS) and the comparison with bOn
ReadyRead ==
    /\ wr # <<>>
    /\ wr.pc = "read"
    /\ wr' = IF wr.rdy = wr.bOn
             THEN [wr EXCEPT !.pc = "idle", !.bRead = TRUE, !.bLast = wr.rdy, !.ret = "true"]
             ELSE [wr EXCEPT !.pc = "check", !.bRead = TRUE, !.bLast = wr.rdy]
    /\ UNCHANGED <<ioVars, stVars, prpVars, phVars, arVars, regVars, ld>>

\* the test of the elapsed ticks: break and return false, or go on
ReadyCheck ==
    /\ wr # <<>>
    /\ wr.pc = "check"
    /\ wr' = IF GivesUp(wr.nElapsed, wr.m_nTimeoutHZ)
             THEN [wr EXCEPT !.pc = "idle", !.ret = "false"]
             ELSE [wr EXCEPT !.pc = "delay"]
    /\ UNCHANGED <<ioVars, stVars, prpVars, phVars, arVars, regVars, ld>>

\* MsDelay (1) or MsSleep (1) returns
ReadyDelay ==
    /\ wr # <<>>
    /\ wr.pc = "delay"
    /\ wr' = [wr EXCEPT !.pc = "read"]
    /\ UNCHANGED <<ioVars, stVars, prpVars, phVars, arVars, regVars, ld>>

\* the timer ticks while WaitReady runs; ticks beyond the timeout are not
\* told apart
ReadyTick ==
    /\ wr # <<>>
    /\ wr.pc # "idle"
    /\ wr.nElapsed <= wr.m_nTimeoutHZ
    /\ wr' = [wr EXCEPT !.nElapsed = @ + 1]
    /\ UNCHANGED <<ioVars, stVars, prpVars, phVars, arVars, regVars, ld>>

\* the controller changes CSTS.RDY
ReadyFlip ==
    /\ wr # <<>>
    /\ wr' = [wr EXCEPT !.rdy = ~@]
    /\ UNCHANGED <<ioVars, stVars, prpVars, phVars, arVars, regVars, ld>>

NextLive ==
    \/ InitializeCall
    \/ ReadCall
    \/ WriteCall
    \/ IOCtlCall
    \/ PollMatch
    \/ PollTick
    \/ PollTimeout
    \/ CtrlExecute
    \/ IrqSyncCall
    \/ IrqSubmitStep
    \/ WaitWake
    \/ WaitTick
    \/ WaitTimeout
    \/ InterruptCall
    \/ HandlerSet
    \/ ReadyCall
    \/ ReadyRead
    \/ ReadyCheck
    \/ ReadyDelay
    \/ ReadyTick
    \/ ReadyFlip

\* when the step PollMatch can be taken
PollMatchEnabled ==
    /\ pc = "poll"
    /\ CompletionMatches(m_IoQueue, CqRead(cqMem, m_IoQueue.nCqHead), call.usCid)

\* weak fairness of PollMatch, with its enabling condition written out
PollMatchFair == []<>(~PollMatchEnabled) \/ []<><<PollMatch>>_vars

SpecLive ==
    /\ InitLive
    /\ [][NextLive]_vars
    /\ PollMatchFair /\ WF_vars(PollTick) /\ WF_vars(PollTimeout)
    /\ WF_vars(IrqSubmitStep)
    /\ WF_vars(WaitWake) /\ WF_vars(WaitTick) /\ WF_vars(WaitTimeout)
    /\ WF_vars(ReadyRead) /\ WF_vars(ReadyCheck) /\ WF_vars(ReadyDelay)
    /\ WF_vars(ReadyTick)

(***************************************************************************)
(* Line discipline (CLineDiscipline): the edit buffer, the escape-key       *)
(* parser of GetChar and the history.  The echo to the output device        *)
(* (PutChar, Flush) changes none of this and is left out.  The buffer and   *)
(* the history are scaled down; bytes are their character codes.            *)
(***************************************************************************)

\* static const unsigned MaxLine (160 in the source), scaled down
MaxLine == 2

\* static const unsigned MaxHistorySize (40 in the source), scaled down
MaxHistorySize == 2

\* the number of bytes the input device delivers in a run
MaxInput == 6

EscapeKeyStart == 256
EscapeKeyLeft == EscapeKeyStart
EscapeKeyRight == 257
EscapeKeyUp == 258
EscapeKeyDown == 259
EscapeKeyHome == 260
EscapeKeyEnd == 261
EscapeKeyInsert == 262
EscapeKeyDelete == 263

\* character codes: '\b', '\n', '\r', '\x1B', ' ', '0', '9', ';', 'A' .. 'G',
\* '[', 'a', '~', '\x7F'
ChBS == 8
ChLF == 10
ChCR == 13
ChESC == 27
ChSpace == 32
Ch0 == 48
Ch5 == 53
Ch9 == 57
ChSemicolon == 59
ChA == 65
ChB == 66
ChC == 67
ChD == 68
ChE == 69
ChG == 71
ChBracket == 91
ChLower == ChA + 32
ChTilde == 126
ChDEL == 127

\* the object after the constructor; m_Buffer, m_pOutPtr and m_nInputParam
\* are not initialised by it and are never read before they are written, so
\* they start as zeros here
LineDisciplineNew ==
    [m_Mode |-> "LineModeInput",
     m_Buffer |-> [i \in 0..(MaxLine + 1) |-> 0],
     m_pInPtr |-> 0, m_pInEnd |-> 0, m_bInsert |-> TRUE, m_pOutPtr |-> 0,
     m_InputState |-> "StateStart", m_nInputParam |-> 0,
     m_History |-> [i \in 0..(MaxHistorySize - 1) |-> <<>>],
     m_nHistorySize |-> 0, m_nHistoryIndex |-> 0,
     bOverrun |-> FALSE,
     pc |-> "idle", nCount |-> 0, nResult |-> 0, ret |-> 0,
     last |-> <<>>, seq |-> <<>>, nInserted |-> 0, nInput |-> 0, keys |-> {},
     bOptions |-> FALSE]

\* *p = ch for p = m_Buffer + i; a store behind the last byte of the array is
\* undefined and is recorded as such
Store(l, i, ch) ==
    IF i \in 0..(MaxLine + 1)
    THEN [l EXCEPT !.m_Buffer[i] = ch]
    ELSE [l EXCEPT !.bOverrun = TRUE]

\* *p for p = m_Buffer + i
Load(l, i) == IF i \in 0..(MaxLine + 1) THEN l.m_Buffer[i] ELSE 0

\* the C string at m_Buffer: the bytes before the first NUL
RECURSIVE BufferString(_, _)
BufferString(l, i) ==
    IF i > MaxLine + 1 \/ l.m_Buffer[i] = 0 THEN <<>>
    ELSE <<l.m_Buffer[i]>> \o BufferString(l, i + 1)

\* for (; p < m_pInEnd; p++) *p = *(p+1), from p = i
RECURSIVE ShiftLeft(_, _)
ShiftLeft(l, i) ==
    IF i < l.m_pInEnd THEN ShiftLeft(Store(l, i, Load(l, i + 1)), i + 1) ELSE l

\* for (; p >= m_pInPtr; p--) *p = *(p-1), from p = i; yields the buffer
RECURSIVE ShiftRight(_, _)
ShiftRight(l, i) ==
    IF i >= l.m_pInPtr THEN ShiftRight(Store(l, i, Load(l, i - 1)), i - 1) ELSE l

\* GetChar, the device having delivered the byte ch:
\* [ld |-> the object afterwards, nResult |-> what GetChar returns]
GetChar(l, ch) ==
    LET Is(state, nResult) == [ld |-> [l EXCEPT !.m_InputState = state],
                               nResult |-> nResult]
        s == l.m_InputState
    IN  IF l.m_Mode = "LineModeRaw" THEN [ld |-> l, nResult |-> ch]
        ELSE IF s = "StateStart"
        THEN (IF ch = ChESC THEN Is("StateEscape", 0) ELSE Is(s, ch))
        ELSE IF s = "StateEscape"
        THEN (IF ch = ChBracket THEN Is("StateSquareBracket1", 0)
              ELSE Is("StateStart", ch))
        ELSE IF s = "StateSquareBracket1"
        THEN (IF ch = ChA THEN Is("StateStart", EscapeKeyUp)
              ELSE IF ch = ChB THEN Is("StateStart", EscapeKeyDown)
              ELSE IF ch = ChC THEN Is("StateStart", EscapeKeyRight)
              ELSE IF ch = ChD THEN Is("StateStart", EscapeKeyLeft)
              ELSE IF ch = ChG THEN Is("StateStart", 0)
              ELSE IF ch = ChBracket THEN Is("StateSquareBracket2", 0)
              ELSE IF Ch0 <= ch /\ ch <= Ch9
              THEN [ld |-> [l EXCEPT !.m_InputState = "StateNumber1",
                                     !.m_nInputParam = ch - Ch0],
                    nResult |-> 0]
              ELSE Is("StateStart", ch))
        ELSE IF s = "StateSquareBracket2"
        THEN (IF ChA <= ch /\ ch <= ChE THEN Is("StateStart", 0)
              ELSE Is("StateStart", ch))
        ELSE IF s = "StateNumber1"
        THEN (IF ch = ChSemicolon THEN Is("StateSemicolon", 0)
              ELSE IF ch = ChTilde
              THEN Is("StateStart",
                      CASE l.m_nInputParam = 1 -> EscapeKeyHome
                        [] l.m_nInputParam = 2 -> EscapeKeyInsert
                        [] l.m_nInputParam = 3 -> EscapeKeyDelete
                        [] l.m_nInputParam = 4 -> EscapeKeyEnd
                        [] OTHER -> 0)
              ELSE IF Ch0 <= ch /\ ch <= Ch9
              THEN [ld |-> [l EXCEPT !.m_nInputParam = @ * 10 + (ch - Ch0),
                                     !.m_InputState =
                                         IF l.m_nInputParam * 10 + (ch - Ch0) > 20
                                         THEN "StateStart" ELSE @],
                    nResult |-> ch]
              ELSE Is(s, ch))
        ELSE IF s = "StateSemicolon"
        THEN (IF ch = Ch5 THEN Is("StateNumber2", 0)
              ELSE Is("StateStart", ch))
        ELSE Is("StateStart", 0)
\* AppendHistory
AppendHistory(l) ==
    LET line == BufferString(l, 0)
        bAppend == /\ l.m_Buffer[0] # ChLF
                   /\ \/ l.m_nHistorySize = 0
                      \/ l.m_History[l.m_nHistorySize - 1] # line
        nSize == IF l.m_nHistorySize = MaxHistorySize THEN l.m_nHistorySize
                 ELSE l.m_nHistorySize + 1
        scrolled == IF l.m_nHistorySize = MaxHistorySize
                    THEN [i \in 0..(MaxHistorySize - 1) |->
                             IF i < MaxHistorySize - 1 THEN l.m_History[i + 1]
                             ELSE l.m_History[i]]
                    ELSE l.m_History
    IN  IF bAppend
        THEN [l EXCEPT !.m_History = [scrolled EXCEPT ![nSize - 1] = line],
                       !.m_nHistorySize = nSize,
                       !.m_nHistoryIndex = nSize]
        ELSE [l EXCEPT !.m_nHistoryIndex = l.m_nHistorySize]

\* the copy loop of MoveHistory: the bytes of line before its '\n' go to the
\* edit buffer one by one, with no test against the size of the buffer
RECURSIVE CopyLine(_, _, _)
CopyLine(l, line, i) ==
    IF i > Len(line) THEN [l EXCEPT !.bOverrun = TRUE]
    ELSE IF line[i] = ChLF THEN l
    ELSE CopyLine([Store(l, l.m_pInPtr, line[i])
                       EXCEPT !.m_pInPtr = @ + 1, !.m_pInEnd = @ + 1],
                  line, i + 1)

\* MoveHistory (nBackFore); the unsigned sum wraps below zero to a value above
\* m_nHistorySize
MoveHistory(l, nBackFore) ==
    LET nNewIndex == l.m_nHistoryIndex + nBackFore
        terminated == [Store(Store(l, l.m_pInEnd, ChLF), l.m_pInEnd + 1, 0)
                          EXCEPT !.m_pInEnd = @ + 1]
        saved == IF l.m_nHistoryIndex < l.m_nHistorySize
                 THEN [terminated EXCEPT !.m_History[l.m_nHistoryIndex] =
                                             BufferString(terminated, 0)]
                 ELSE terminated
        cleared == [saved EXCEPT !.m_nHistoryIndex = nNewIndex, !.m_pInEnd = 0,
                                 !.m_pInPtr = 0]
    IN  IF nNewIndex < 0 \/ nNewIndex > l.m_nHistorySize THEN l
        ELSE IF nNewIndex < l.m_nHistorySize
        THEN CopyLine(cleared, cleared.m_History[nNewIndex], 1)
        ELSE cleared

\* Read, line-input mode: what the switch does with nChar (> 0)
HandleChar(l, nChar) ==
    IF nChar \in {ChBS, ChDEL}
    THEN (IF l.m_pInPtr > 0
          THEN (IF l.m_bInsert
                THEN ShiftLeft([l EXCEPT !.m_pInPtr = @ - 1, !.m_pInEnd = @ - 1],
                               l.m_pInPtr - 1)
                ELSE [l EXCEPT !.m_pInPtr = @ - 1])
          ELSE l)
    ELSE IF nChar \in {ChCR, ChLF}
    THEN [AppendHistory([Store(Store(l, l.m_pInEnd, ChLF), l.m_pInEnd + 1, 0)
                            EXCEPT !.m_pInPtr = IF @ < l.m_pInEnd THEN l.m_pInEnd
                                                ELSE @,
                                   !.m_pInEnd = @ + 1])
             EXCEPT !.m_pOutPtr = 0, !.m_Mode = "LineModeOutput"]
    ELSE IF nChar = EscapeKeyDelete
    THEN (IF l.m_pInPtr < l.m_pInEnd
          THEN ShiftLeft([l EXCEPT !.m_pInEnd = @ - 1], l.m_pInPtr)
          ELSE l)
    ELSE IF nChar = EscapeKeyLeft
    THEN (IF l.m_pInPtr > 0 THEN [l EXCEPT !.m_pInPtr = @ - 1] ELSE l)
    ELSE IF nChar = EscapeKeyRight
    THEN (IF l.m_pInPtr < l.m_pInEnd THEN [l EXCEPT !.m_pInPtr = @ + 1] ELSE l)
    ELSE IF nChar = EscapeKeyHome
    THEN [l EXCEPT !.m_pInPtr = 0]
    ELSE IF nChar = EscapeKeyEnd
    THEN [l EXCEPT !.m_pInPtr = IF @ < l.m_pInEnd THEN l.m_pInEnd ELSE @]
    ELSE IF nChar = EscapeKeyInsert
    THEN [l EXCEPT !.m_bInsert = ~@]
    ELSE IF nChar = EscapeKeyUp THEN MoveHistory(l, -1)
    ELSE IF nChar = EscapeKeyDown THEN MoveHistory(l, 1)
    ELSE IF ChSpace <= nChar /\ nChar <= EscapeKeyStart
    THEN (IF l.m_bInsert
          THEN (IF l.m_pInEnd < MaxLine
                THEN Store(ShiftRight([l EXCEPT !.m_pInEnd = @ + 1, !.m_pInPtr = @ + 1],
                                      l.m_pInEnd),
                           IF l.m_pInEnd > l.m_pInPtr THEN l.m_pInPtr ELSE l.m_pInEnd,
                           nChar % 256)
                ELSE l)
          ELSE (IF l.m_pInPtr < MaxLine
                THEN [Store(l, l.m_pInPtr, nChar % 256)
                         EXCEPT !.m_pInPtr = @ + 1,
                                !.m_pInEnd = IF l.m_pInPtr + 1 > @ THEN l.m_pInPtr + 1
                                             ELSE @]
                ELSE l))
    ELSE l

\* Read returns nResult; its arguments and locals are gone
ReadReturn(l, nResult) ==
    [l EXCEPT !.pc = "idle", !.ret = nResult, !.nCount = 0, !.nResult = 0]

\* Read, from the top of its loop to the next call of GetChar or to its return:
\* line-output mode copies to the caller and returns when nCount is used up
\* with bytes left, otherwise prepares the next input
ReadLoop(l) ==
    IF l.m_Mode = "LineModeInput" THEN [l EXCEPT !.pc = "input"]
    ELSE IF l.m_Mode = "LineModeRaw" THEN [l EXCEPT !.pc = "raw"]
    ELSE LET nLeft == l.m_pInEnd - l.m_pOutPtr
             n == IF nLeft < l.nCount THEN (IF nLeft > 0 THEN nLeft ELSE 0)
                  ELSE l.nCount
             copied == [l EXCEPT !.m_pOutPtr = @ + n,
                                 !.nCount = @ - n,
                                 !.nResult = @ + n]
         IN  IF copied.m_pOutPtr < copied.m_pInEnd
             THEN ReadReturn(copied, copied.nResult)
             ELSE IF copied.nResult > 0
             THEN [copied EXCEPT !.m_pInPtr = 0, !.m_pInEnd = 0,
                                 !.m_Mode = "LineModeInput", !.m_bInsert = TRUE,
                                 !.pc = "idle", !.ret = copied.nResult,
                                 !.nCount = 0, !.nResult = 0]
             ELSE [copied EXCEPT !.m_pInPtr = 0, !.m_pInEnd = 0,
                                 !.m_Mode = "LineModeInput", !.m_bInsert = TRUE,
                                 !.pc = "input"]

\* the values of nCount a caller passes to Read
ReadCounts == {1, MaxLine + 1}

\* the runs: the bytes the input device delivers (typing and correcting, the
\* history, the cursor, overwriting, the function keys with a parameter) and
\* whether the application switches the mode between two calls of Read
LineRuns ==
    {[keys |-> {ChLower, ChLower + 1, ChBS, ChCR}, bOptions |-> FALSE],
     [keys |-> {ChLower, ChCR, ChESC, ChBracket, ChA}, bOptions |-> FALSE],
     [keys |-> {ChLower, ChBS, ChESC, ChBracket, ChD}, bOptions |-> FALSE],
     [keys |-> {ChLower, ChESC, ChBracket, Ch0 + 2, ChTilde}, bOptions |-> FALSE],
     [keys |-> {ChESC, ChBracket, Ch0 + 1, Ch5, ChSemicolon, ChTilde},
      bOptions |-> FALSE],
     [keys |-> {ChLower, ChCR}, bOptions |-> TRUE],
     [keys |-> {ChLower, ChESC, ChBracket, ChD}, bOptions |-> TRUE]}

InitLine ==
    /\ RegIdle
    /\ IoIdle
    /\ StatusIdle
    /\ PrpIdle
    /\ PhaseIdle
    /\ ArenaIdle
    /\ wr = <<>>
    /\ ld \in {[LineDisciplineNew EXCEPT !.keys = run.keys,
                                         !.bOptions = run.bOptions] :
                 run \in LineRuns}

\* Read (pBuffer, nCount) is called
LineReadCall ==
    /\ ld.pc = "idle"
    /\ ~ld.bOverrun
    /\ \E nCount \in ReadCounts :
          ld' = ReadLoop([ld EXCEPT !.nCount = nCount, !.nResult = 0, !.ret = 0,
                                    !.last = <<>>])
    /\ UNCHANGED <<ioVars, stVars, prpVars, phVars, arVars, regVars, wr>>

\* Read, line-input mode: GetChar gets the byte ch from the input device; Read
\* returns 0 when GetChar consumed it, else acts on it and goes round its loop
LineInputChar ==
    /\ ld.pc = "input"
    /\ ld.nInput < MaxInput
    /\ \E ch \in ld.keys :
          LET g == GetChar(ld, ch)
              handled == HandleChar(g.ld, g.nResult)
              bInserted == /\ ChSpace <= g.nResult
                           /\ g.nResult <= EscapeKeyStart
                           /\ handled.m_pInPtr = g.ld.m_pInPtr + 1
              bStart == ld.m_InputState = "StateStart"
              seen == [(IF g.nResult <= 0 THEN g.ld ELSE handled)
                          EXCEPT !.nInput = @ + 1,
                                 !.last = [state |-> ld.m_InputState, ch |-> ch,
                                           nChar |-> g.nResult,
                                           bInserted |-> bInserted],
                                 !.seq = IF bStart
                                         THEN (IF ch = ChESC THEN <<ch>> ELSE <<>>)
                                         ELSE Append(@, ch),
                                 !.nInserted = IF bStart THEN 0
                                               ELSE IF bInserted THEN @ + 1 ELSE @]
          IN  ld' = IF g.nResult <= 0
                    THEN ReadReturn(seen, g.nResult)
                    ELSE ReadLoop(seen)
    /\ UNCHANGED <<ioVars, stVars, prpVars, phVars, arVars, regVars, wr>>

\* Read, raw mode: GetChar hands the byte on as it is, until nCount are read
LineRawChar ==
    /\ ld.pc = "raw"
    /\ ld.nInput < MaxInput
    /\ \E ch \in ld.keys :
          LET g == GetChar(ld, ch)
              taken == [g.ld EXCEPT !.nInput = @ + 1,
                                    !.nCount = @ - 1,
                                    !.nResult = @ + 1]
          IN  ld' = IF taken.nCount > 0 THEN taken
                    ELSE ReadReturn(taken, taken.nResult)
    /\ UNCHANGED <<ioVars, stVars, prpVars, phVars, arVars, regVars, wr>>

\* the input device has no byte (0) or fails (< 0): Read returns that in
\* line-input mode; in raw mode it returns the failure or what it has read
LineNoChar ==
    /\ ld.pc \in {"input", "raw"}
    /\ \E nChar \in {0, -1} :
          ld' = ReadReturn(ld, IF ld.pc = "raw" /\ nChar = 0 THEN ld.nResult
                           ELSE nChar)
    /\ UNCHANGED <<ioVars, stVars, prpVars, phVars, arVars, regVars, wr>>

\* SetOptionRawMode (bEnable), between two calls of Read
SetOptionRawMode ==
    /\ ld.pc = "idle"
    /\ ld.bOptions
    /\ ~ld.bOverrun
    /\ \E bEnable \in BOOLEAN :
          ld' = [ld EXCEPT !.m_Mode = IF bEnable THEN "LineModeRaw"
                                      ELSE "LineModeInput",
                           !.m_pInPtr = 0]
    /\ UNCHANGED <<ioVars, stVars, prpVars, phVars, arVars, regVars, wr>>

NextLine ==
    \/ LineReadCall
    \/ LineInputChar
    \/ LineRawChar
    \/ LineNoChar
    \/ SetOptionRawMode

SpecLine == InitLine /\ [][NextLine]_vars

(***************************************************************************)
(* Polling against a completion ring that holds anything: both builds,     *)
(* with an environment in the controller's place that writes any entry     *)
(* into the slot at the head and raises the interrupt at any time.         *)
(***************************************************************************)

\* the entries the environment writes while usCid is awaited: any phase, either
\* queue, the awaited cid or the next, all reporting a failure
StrayEntries(usCid) ==
    {[sqhead |-> 0, sqid |-> sqid, cid |-> cid, status |-> StatusWord(StatusGeneric, p)] :
        sqid \in {IOQID, AQID}, cid \in {usCid, (usCid + 1) % NVME_IO_QUEUE_ENTRIES},
        p \in {0, 1}}

InitMatch ==
    /\ RegIdle
    /\ SideIdle
    /\ \E sc \in {ScnDrift, ScnInterrupt} : InitIo(sc, ControllerDefault)
    /\ StatusIdle
    /\ PrpIdle
    /\ PhaseIdle
    /\ ArenaIdle

\* IOCtl (DEVICE_IOCTL_SYNC) in the polling build
MatchSyncCall ==
    /\ drvState = "ready"
    /\ pc = "idle"
    /\ "NO_BUSY_WAIT" \notin scn.build
    /\ opCount < MaxOps
    /\ Set(IOCtl(Cur, DEVICE_IOCTL_SYNC))
    /\ act' = "IOCtl"
    /\ opCount' = opCount + 1
    /\ UNCHANGED <<cqMem, dev, scn, nTimedOut, hpc, auxVars>>

\* an entry appears in the slot at the head while a command is awaited
StrayCompletion ==
    /\ pc \in {"wait", "poll"}
    /\ \E e \in StrayEntries(call.usCid) :
           cqMem' = (m_IoQueue.nCqHead :> e) @@ cqMem
    /\ act' = "StrayCompletion"
    /\ UNCHANGED <<drvState, m_ulOffset, m_ulNamespaceSize, m_nDoorbellStride,
                   m_AdminQueue, m_IoQueue, m_Allocator, sqMem, mem, prpListMem,
                   heapLive, pc, call, ret, hist, log, opCount, syncCalls, scn, ctrl,
                   dev, nTimedOut, m_Event, hpc, auxVars>>

\* the handler is entered, vector 0 being unmasked, whatever the ring holds
StrayInterrupt ==
    /\ drvState = "ready"
    /\ "NO_BUSY_WAIT" \in scn.build
    /\ ctrl.intms[1] % 2 = 0
    /\ HandlerMask

NextMatch ==
    \/ InitializeCall
    \/ MatchSyncCall
    \/ IrqSyncCall
    \/ IrqSubmitStep
    \/ WaitWake
    \/ WaitTick
    \/ WaitTimeout
    \/ PollMatch
    \/ PollTick
    \/ PollTimeout
    \/ HandlerSet
    \/ StrayCompletion
    \/ StrayInterrupt

SpecMatch == InitMatch /\ [][NextMatch]_vars

(***************************************************************************)
(* What Initialize derives from register values: the CC value of the       *)
(* enable step from the CC value read, the ready timeout from CAP.         *)
(***************************************************************************)

\* CC values: every IOSQES and IOCQES field, with and without EN
ControlInputs ==
    {nSq * 2^NVME_REG_CC_IOSQES__SHIFT + nCq * 2^NVME_REG_CC_IOCQES__SHIFT + nEn :
        nSq \in 0..15, nCq \in 0..15, nEn \in 0..1}

\* CAP values: MQES 0 or 63, TO (bits 24..31) 0, 1, 2, 30 or 255, DSTRD
\* (bits 32..35) 0 or 1, CSS bit 37 clear or set
CapInputs ==
    {<<nMqes, nTo * 2^8, nDstrd + nCss * 2^5, 0>> :
        nMqes \in {0, 63}, nTo \in {0, 1, 2, 30, 255}, nDstrd \in {0, 1},
        nCss \in {0, 1}}

InitRegs ==
    /\ SideIdle
    /\ IoIdle
    /\ StatusIdle
    /\ PrpIdle
    /\ PhaseIdle
    /\ ArenaIdle
    /\ regIn \in ({<<"CC", nCC>> : nCC \in ControlInputs}
                  \cup {<<"CAP", ulCaps>> : ulCaps \in CapInputs})
    /\ regOut = <<>>

\* the enable step of Initialize on the CC value read
EnableStep ==
    /\ regIn[1] = "CC"
    /\ regOut = <<>>
    /\ regOut' = <<EnableValue(regIn[2])>>
    /\ UNCHANGED <<ioVars, stVars, prpVars, phVars, arVars, regIn, sideVars>>

\* the ready timeout of Initialize on the CAP value read
TimeoutStep ==
    /\ regIn[1] = "CAP"
    /\ regOut = <<>>
    /\ regOut' = <<ReadyTimeoutOf(regIn[2])>>
    /\ UNCHANGED <<ioVars, stVars, prpVars, phVars, arVars, regIn, sideVars>>

NextRegs ==
    \/ EnableStep
    \/ TimeoutStep

SpecRegs == InitRegs /\ [][NextRegs]_vars

(***************************************************************************)
(* Properties                                                              *)
(***************************************************************************)

\* the fields of a status word, by arithmetic
StatusSct(w) == (w \div 2^9) % 8
StatusSc(w) == (w \div 2) % 256
StatusIsOk(w) == StatusSct(w) = 0 /\ StatusSc(w) = 0

\* the result the status word of a matched completion stands for
ExpectedResult(w) ==
    IF StatusSct(w) = 0 /\ StatusSc(w) = 0 THEN 0
    ELSE IF StatusSct(w) = 0 /\ StatusSc(w) = 128 THEN -6
    ELSE -3

\* a Read, Write or IOCtl call has just returned; hist[1] is that call
JustReturned ==
    /\ pc = "idle"
    /\ act \in {"Read", "Write", "IOCtl", "PollMatch", "PollTimeout"}
    /\ Len(hist) >= 1

\* the call whose completion was matched has just returned
JustCompleted == JustReturned /\ act = "PollMatch"

\* the registers the driver writes as the doorbells of queue 1
IoSqDoorbell == NVME_REG_DOORBELL_BASE + 2 * IOQID * m_nDoorbellStride
IoCqDoorbell == NVME_REG_DOORBELL_BASE + 2 * IOQID * m_nDoorbellStride + 4

\* the controller decodes the doorbell registers with the stride the driver uses
SameStride == CtrlStride(ctrl) = m_nDoorbellStride

IsSlotWrite(e) == e.ev = "slot"
IsSqDoorbellWrite(e) == e.ev = "mmio" /\ e.a = IoSqDoorbell
IsCqDoorbellWrite(e) == e.ev = "mmio" /\ e.a = IoCqDoorbell

\* what the call in progress, or else the call that returned last, was given
LastArg == IF pc = "poll" THEN call.arg ELSE ret.arg

\* block k of the buffer at pBuffer
BufferBlock(pBuffer, k) == MemRead(mem, PhysicalOf(pBuffer + 512 * k))

\* C1: a Write of L bytes at offset X followed by a Read of L bytes at X, both
\* commands completing with SCT = SC = 0, returns L from both calls and leaves
\* the read buffer equal to the payload written.
C1_RoundTrip ==
    (/\ JustCompleted
     /\ Len(hist) = 2
     /\ hist[1].op = "Read" /\ hist[2].op = "Write"
     /\ hist[1].off = hist[2].off /\ hist[1].cnt = hist[2].cnt
     /\ hist[2].status # -1 /\ StatusIsOk(hist[2].status)
     /\ StatusIsOk(hist[1].status))
    => /\ hist[2].val = hist[2].cnt
       /\ hist[1].val = hist[1].cnt
       /\ \A k \in 0..((hist[1].cnt \div 512) - 1) :
             BufferBlock(hist[1].buf, k) = Payload(hist[2].tag, k)

\* a 5120-byte payload written from a buffer ending a page and read back at the
\* same offset into a buffer that is not cache aligned
C1_Witness ==
    /\ JustCompleted
    /\ Len(hist) = 2
    /\ hist[1].op = "Read" /\ hist[2].op = "Write"
    /\ hist[1].off = Off512 /\ hist[2].off = Off512
    /\ hist[1].cnt = 5120 /\ hist[2].cnt = 5120
    /\ hist[1].buf = BufOdd /\ hist[2].buf = BufTail
    /\ hist[1].val = 5120 /\ hist[2].val = 5120

\* C2: a Read or Write at an offset that is not a multiple of 512, or with a
\* count that is zero or not a multiple of 512, returns -1 at once: no slot is
\* written, no doorbell is rung, nothing is allocated, and the queue positions,
\* the phase and the offset are as before.
C2_BadParam ==
    [][(/\ act' \in {"Read", "Write"}
        /\ \/ m_ulOffset[1] % 512 # 0
           \/ LastArg' = 0
           \/ LastArg' % 512 # 0)
       => /\ pc' = "idle"
          /\ ret'.op = act'
          /\ ret'.val = -1
          /\ log' = <<>>
          /\ UNCHANGED <<sqMem, cqMem, ctrl, m_Allocator, prpListMem, heapLive,
                         m_IoQueue, m_AdminQueue, m_ulOffset>>]_vars

\* a Write of 512 bytes at offset 100 has returned -1
C2_Witness ==
    /\ act = "Write"
    /\ ret.op = "Write" /\ ret.arg = 512 /\ ret.val = -1
    /\ m_ulOffset = OffMisaligned

\* C3: a Read (Write) at offset X with count C whose completion has SCT = SC = 0
\* has written one slot of queue 1, holding opcode 2 (1), nsid 1, cdw10 = the
\* low dword of X/512, cdw11 = 0 when X/512 < 2^32, cdw12 = C/512 - 1 and
\* prp1 = the bus address of the transfer buffer, and returns C; for C = 512 at
\* X = 0 with the 512 bytes inside one page, cdw10 = cdw11 = cdw12 = 0, prp2 = 0
\* and the result is 512.
C3_IoCommand ==
    (/\ JustCompleted
     /\ hist[1].op \in {"Read", "Write"}
     /\ StatusIsOk(hist[1].status))
    => LET h == hist[1]
           cmd == SqRead(sqMem, h.cid)
       IN  /\ Len(SelectSeq(log, IsSlotWrite)) = 1
           /\ \A i \in 1..Len(log) : IsSlotWrite(log[i]) => log[i].a = 1 /\ log[i].b = h.cid
           /\ Len(SelectSeq(log, IsSqDoorbellWrite)) = 1
           /\ cmd.opc = IF h.op = "Read" THEN 2 ELSE 1
           /\ cmd.cid = h.cid
           /\ cmd.nsid = 1
           /\ cmd.cdw10 = U64Lo32(U64Shr9(h.off))
           /\ (U64Hi32(U64Shr9(h.off)) = <<0, 0>> => cmd.cdw11 = <<0, 0>>)
           /\ cmd.cdw12 = U32((h.cnt \div 512) - 1)
           /\ h.xfer = (IF h.buf % CacheLine = 0 /\ h.cnt % CacheLine = 0
                        THEN h.buf ELSE HeapBlock)
           /\ cmd.prp1 = PhysicalOf(h.xfer)
           /\ h.val = h.cnt
           /\ (h.cnt = 512 /\ h.off = U64Zero /\ (h.xfer % 4096) + 512 <= 4096)
              => /\ cmd.cdw10 = <<0, 0>> /\ cmd.cdw11 = <<0, 0>> /\ cmd.cdw12 = <<0, 0>>
                 /\ cmd.prp2 = 0
                 /\ h.val = 512

\* Seek (0); Read (buf, 512) with a page-aligned buffer has returned 512
C3_Witness ==
    /\ JustCompleted
    /\ hist[1].op = "Read"
    /\ hist[1].off = Off0 /\ hist[1].cnt = 512 /\ hist[1].buf = BufPage
    /\ hist[1].val = 512
    /\ SqRead(sqMem, hist[1].cid).opc = 2

\* C4: the starting LBA of the command a Read or Write submits, as the 64-bit
\* value cdw11:cdw10, is the byte offset divided by 512, for every offset that
\* is a multiple of 512.
C4_Lba64 ==
    (pc = "poll" /\ call.op \in {"Read", "Write"})
    => LET cmd == SqRead(sqMem, call.usCid)
       IN  U64FromDwords(cmd.cdw11, cmd.cdw10) = U64Shr9(call.off)

\* C5: the result of a matched completion is 0 when SCT = 0 and SC = 0, -6 when
\* SCT = 0 and SC = 0x80, and -3 otherwise, with SCT = bits 9..11 and
\* SC = bits 1..8 of the status word: bit 0 and bits 12..15 play no part.
C5_StatusDecode ==
    stResult # <<>>
    => stResult[1] = (IF StatusSct(stWord) = 0 /\ StatusSc(stWord) = 0 THEN 0
                      ELSE IF StatusSct(stWord) = 0 /\ StatusSc(stWord) = 128 THEN -6
                      ELSE -3)

\* SCT = 0, SC = 0x80 with the phase bit and bits 12 and 15 set decodes to -6
C5_Witness ==
    /\ stWord = 2^15 + 2^12 + 2 * 128 + 1
    /\ stResult = <<-6>>

\* C6: a Read or Write answered with SCT = 0, SC = 0x80 returns -6; after that
\* and after any other failure status the entry has been consumed (the head
\* has moved past it, the completion doorbell of queue 1 holds the new head,
\* tail and head are equal), and the next Read, Write or IOCtl (SYNC) whose
\* completion has SCT = SC = 0 succeeds.
C6_UsableAfterError ==
    JustCompleted
    => LET h == hist[1]
       IN  /\ (h.op \in {"Read", "Write"} /\ StatusSct(h.status) = 0
               /\ StatusSc(h.status) = 128)
              => h.val = -6
           /\ ~StatusIsOk(h.status)
              => /\ h.val \in {-6, -3}
                 /\ m_IoQueue.nCqHead = (h.cid + 1) % 64
                 /\ \E i \in 1..Len(log) :
                       IsCqDoorbellWrite(log[i]) /\ log[i].b = m_IoQueue.nCqHead
                 /\ ctrl.cqHead = m_IoQueue.nCqHead
                 /\ m_IoQueue.nSqTail = m_IoQueue.nCqHead
           /\ (/\ Len(hist) = 2
               /\ hist[2].status # -1 /\ ~StatusIsOk(hist[2].status)
               /\ StatusIsOk(h.status))
              => h.val = (IF h.op = "IOCtl" THEN 0 ELSE h.cnt)

\* a Read beyond the namespace returned -6 and the Write after it returned 512
C6_Witness ==
    /\ JustCompleted
    /\ Len(hist) = 2
    /\ hist[2].op = "Read" /\ hist[2].val = -6
    /\ hist[1].op = "Write" /\ hist[1].val = 512

\* C7: no call writes the submission doorbell of queue 1 more than once, and a
\* call whose command failed (CONTROLLER, LBA_RANGE) or timed out returns that
\* very status.
C7_NoRetry ==
    /\ Len(SelectSeq(log, IsSqDoorbellWrite)) <= 1
    /\ Len(SelectSeq(log, IsSlotWrite)) <= 1
    /\ (JustReturned /\ hist[1].submitted)
       => /\ hist[1].status = -1 => hist[1].val = -4
          /\ (hist[1].status # -1 /\ ~StatusIsOk(hist[1].status))
             => hist[1].val = ExpectedResult(hist[1].status)

\* a Write whose command was never answered returned -4 after one doorbell write
C7_Witness ==
    /\ JustReturned
    /\ act = "PollTimeout"
    /\ hist[1].op = "Write" /\ hist[1].val = -4
    /\ Len(SelectSeq(log, IsSqDoorbellWrite)) = 1

\* the slots of the submission ring that hold a FLUSH command
FlushSlots == {i \in DOMAIN sqMem : sqMem[i].opc = 0}

\* C8: after N calls of IOCtl (SYNC) the ring of queue 1 holds N FLUSH commands
\* (opcode 0, nsid 1, prp1 = prp2 = 0, cdw10 = cdw11 = cdw12 = 0), each call
\* having written one slot and rung the doorbell once, and a call whose command
\* completes with SCT = SC = 0 returns 0.
C8_Flush ==
    /\ Cardinality(FlushSlots) = syncCalls
    /\ \A i \in FlushSlots :
          sqMem[i] = [opc |-> 0, fuse |-> 0, cid |-> i, nsid |-> 1, reserved |-> 0,
                      mptr |-> 0, prp1 |-> 0, prp2 |-> 0,
                      cdw10 |-> <<0, 0>>, cdw11 |-> <<0, 0>>, cdw12 |-> <<0, 0>>,
                      cdw13 |-> <<0, 0>>, cdw14 |-> <<0, 0>>, cdw15 |-> <<0, 0>>]
    /\ (pc = "poll" /\ call.op = "IOCtl")
       => /\ Len(SelectSeq(log, IsSlotWrite)) = 1
          /\ Len(SelectSeq(log, IsSqDoorbellWrite)) = 1
          /\ SameStride => ctrl.sqTail = (call.usCid + 1) % 64
    /\ (JustCompleted /\ hist[1].op = "IOCtl" /\ StatusIsOk(hist[1].status))
       => hist[1].val = 0

\* the second of two IOCtl (SYNC) calls has returned 0
C8_Witness ==
    /\ JustCompleted
    /\ syncCalls = 2
    /\ Cardinality(FlushSlots) = 2
    /\ hist[1].op = "IOCtl" /\ hist[1].val = 0

\* C9: IOCtl with a code other than DEVICE_IOCTL_SYNC returns -1 and does
\* nothing: no slot, no doorbell, offset, queues and allocator as before.
C9_IoctlOther ==
    [][(act' = "IOCtl" /\ LastArg' # DEVICE_IOCTL_SYNC)
       => /\ pc' = "idle"
          /\ ret'.op = "IOCtl"
          /\ ret'.val = -1
          /\ log' = <<>>
          /\ UNCHANGED <<sqMem, cqMem, ctrl, m_ulOffset, m_IoQueue, m_AdminQueue,
                         m_Allocator, prpListMem, heapLive, mem, dev, syncCalls>>]_vars

\* IOCtl with another code has returned -1
C9_Witness ==
    /\ act = "IOCtl"
    /\ ret.op = "IOCtl" /\ ret.arg = DEVICE_IOCTL_SYNC + 1 /\ ret.val = -1

\* C10: Seek (o) sets the byte cursor to o and returns o, whatever o is, and
\* changes nothing else: no slot, no doorbell, queues, namespace size and
\* allocator as before.
C10_Seek ==
    [][act' = "Seek"
       => /\ ret'.op = "Seek"
          /\ m_ulOffset' = ret'.arg
          /\ ret'.val = ret'.arg
          /\ log' = <<>>
          /\ UNCHANGED <<drvState, m_ulNamespaceSize, m_nDoorbellStride, m_AdminQueue,
                         m_IoQueue, m_Allocator, sqMem, cqMem, mem, prpListMem,
                         heapLive, pc, call, ctrl, dev>>]_vars

\* Seek to an offset that is no multiple of 512 and lies beyond nothing has
\* returned that offset
C10_Witness ==
    /\ act = "Seek"
    /\ ret.op = "Seek" /\ ret.arg = OffMisaligned /\ ret.val = OffMisaligned
    /\ m_ulOffset = OffMisaligned

\* CC.EN and CSTS.RDY as the controller holds them
CcEn == ctrl.cc % 2
CstsRdy == ctrl.rdy % 2

IsCcWrite(e, en) == e.ev = "mmio" /\ e.a = 20 /\ e.b % 2 = en
IsReadyWait(e, bOn) == e.ev = "ready" /\ e.a = bOn

\* Initialize returned success with the controller running, having written
\* CC.EN = 1 and then seen CSTS.RDY = 1
InitializeHandshake ==
    /\ drvState = "ready" => (CcEn = 1 /\ CstsRdy = 1)
    /\ (act = "Initialize" /\ drvState = "ready")
       => \E i \in 1..Len(log) : \E j \in (i + 1)..Len(log) :
             /\ IsCcWrite(log[i], 1)
             /\ IsReadyWait(log[j], TRUE) /\ log[j].b

\* the destructor wrote CC.EN = 0 and then waited for CSTS.RDY = 0
DestroyHandshake ==
    act = "Destroy"
    => /\ Len(log) = 2
       /\ IsCcWrite(log[1], 0)
       /\ IsReadyWait(log[2], FALSE)

\* C11: whenever Initialize returns success, CC.EN is 1 and CSTS.RDY was read
\* as 1 after CC.EN = 1 was written.  Destruction clears CC.EN and waits for
\* CSTS.RDY = 0 without looking at the outcome of the wait: after destruction
\* CC.EN is 0, and CSTS.RDY is 0 if the controller cleared it before the wait
\* gave up.
C11_ResetHandshake ==
    /\ InitializeHandshake
    /\ DestroyHandshake
    /\ drvState = "destroyed" => CcEn = 0
    /\ (act = "Destroy" /\ log[2].b) => CstsRdy = 0

\* the driver was destroyed after a Read that returned 512, and the controller
\* stopped in time
C11_Witness ==
    /\ act = "Destroy"
    /\ Len(hist) >= 1 /\ hist[1].op = "Read" /\ hist[1].val = 512
    /\ log[2].b
    /\ CcEn = 0 /\ CstsRdy = 0

\* C11 as stated: after destruction CC.EN is 0 and CSTS.RDY is 0, whatever the
\* controller did during the wait.
C11_AsStated ==
    /\ InitializeHandshake
    /\ drvState = "destroyed" => (CcEn = 0 /\ CstsRdy = 0)

\* major version 1 and minor version 3 or 4, by arithmetic on VER
VersionAccepted(ver) ==
    /\ ver \div 65536 = 1
    /\ (ver % 65536) \div 256 \in {3, 4}

\* C12: with a VER register whose major version is not 1 or whose minor version
\* is neither 3 nor 4, Initialize returns failure without writing a register
\* (CC.EN stays as it was, 0 after a reset), without allocating a queue and
\* without an admin command.
C12_VersionRejected ==
    [][(act' = "Initialize" /\ ~VersionAccepted(ctrl.ver))
       => /\ ret'.val = FALSE
          /\ drvState' = "failed"
          /\ ctrl' = ctrl
          /\ log' = <<>>
          /\ m_Allocator' = m_Allocator
          /\ m_AdminQueue' = m_AdminQueue /\ m_AdminQueue.pSqVirt = 0
          /\ m_IoQueue' = m_IoQueue /\ m_IoQueue.pSqVirt = 0
          /\ sqMem' = sqMem]_vars

\* Initialize has failed on VER = 0x00020000 with CC.EN 0
C12_Witness ==
    /\ act = "Initialize"
    /\ ctrl.ver = 131072
    /\ drvState = "failed" /\ ret.val = FALSE
    /\ CcEn = 0

\* u64 times 512, limb by limb with carry
Times512(u) ==
    LET v1 == u[1] * 512
        v2 == u[2] * 512 + v1 \div 65536
        v3 == u[3] * 512 + v2 \div 65536
        v4 == u[4] * 512 + v3 \div 65536
    IN  <<v1 % 65536, v2 % 65536, v3 % 65536, v4 % 65536>>

\* C13: Initialize returns success only if the LBA format that FLBAS & 0x0F
\* selects has LBADS = 9 and MS = 0; from then on, through every Read, Write,
\* Seek and IOCtl, the namespace size is the number of blocks times 512, and
\* that is what GetSize returns.
C13_NamespaceSize ==
    /\ drvState = "ready"
       => /\ ctrl.lbaf[(ctrl.flbas % 16) + 1] = [lbads |-> 9, ms |-> 0]
          /\ m_ulNamespaceSize = Times512(ctrl.nsze)
    /\ ret.op = "GetSize" => ret.val = Times512(ctrl.nsze)

\* GetSize has returned 2^41 for a namespace of 2^32 blocks whose format is
\* entry 1 of the table, after a Seek, a Write and an IOCtl
C13_Witness ==
    /\ ret.op = "GetSize"
    /\ ret.val = <<0, 0, 512, 0>>
    /\ ctrl.flbas = 17
    /\ m_ulOffset = Off512
    /\ Len(hist) = 2 /\ hist[1].op = "IOCtl" /\ hist[2].op = "Write"

\* the entry at the head of the completion ring carries the phase bit the
\* driver expects
HeadHasExpectedPhase ==
    (CqRead(cqMem, m_IoQueue.nCqHead).status % 2 = 1) = m_IoQueue.bCqPhase

\* C14: a poll that ends without an entry of the expected phase at the head
\* returns TIMEOUT (-4) to the caller, when the tick counter has advanced by at
\* least POLL_TIMEOUT_HZ = 5 * HZ and by at most one more since the poll began;
\* the head and the expected phase are what they were; and no poll goes on
\* beyond that.
C14_Timeout ==
    /\ [](pc = "poll" => call.nElapsed <= 5 * HZ + 1)
    /\ [][(pc = "poll" /\ pc' = "idle" /\ ~HeadHasExpectedPhase)
          => /\ ret'.val = -4
             /\ hist'[1].val = -4
             /\ call.nElapsed >= 5 * HZ
             /\ call.nElapsed <= 5 * HZ + 1
             /\ m_IoQueue'.nCqHead = m_IoQueue.nCqHead
             /\ m_IoQueue'.bCqPhase = m_IoQueue.bCqPhase]_vars

\* an IOCtl (SYNC) the controller never answered has returned -4
C14_Witness ==
    /\ act = "PollTimeout"
    /\ ret.op = "IOCtl" /\ ret.val = -4
    /\ ~HeadHasExpectedPhase
    /\ m_IoQueue.nCqHead = 0 /\ m_IoQueue.nSqTail = 1

\* a Read into a buffer that is not a multiple of the cache line (64 bytes)
\* is in progress, or is the call that returned last
BounceRead(c) == c.op = "Read" /\ c.pBuffer % 64 # 0

\* the bus addresses of the bytes of [p, p + n)
BusRange(p, n) == {1073741824 + p + i : i \in 0..(n - 1)}

\* the blocks of the user buffer of call c
UserBlocks(m, c) ==
    [k \in 0..((c.ulCount \div 512) - 1) |-> MemRead(m, 1073741824 + c.pBuffer + 512 * k)]

\* C15: a Read into a buffer that is not cache aligned submits its command
\* against a separate cache-aligned buffer (neither PRP1 nor PRP2 points into
\* the user buffer); when the Read succeeds the user buffer holds the blocks
\* of the namespace that were asked for; every step of a Read that does not
\* end in success leaves the user buffer as it was; and whenever no call is in
\* progress every bounce buffer has been released.
C15_Bounce ==
    /\ [](pc = "idle" => heapLive = {})
    /\ []((pc = "poll" /\ BounceRead(call))
           => LET cmd == sqMem[call.usCid]
              IN  /\ call.pTransferBuffer # call.pBuffer
                  /\ call.pTransferBuffer % 64 = 0
                  /\ call.pTransferBuffer \in heapLive
                  /\ cmd.prp1 = 1073741824 + call.pTransferBuffer
                  /\ cmd.prp1 \notin BusRange(call.pBuffer, call.ulCount)
                  /\ cmd.prp2 \notin BusRange(call.pBuffer, call.ulCount))
    /\ []((JustCompleted /\ hist[1].op = "Read" /\ hist[1].buf % 64 # 0
             /\ hist[1].val = hist[1].cnt)
           => \A k \in 0..((hist[1].cnt \div 512) - 1) :
                 BufferBlock(hist[1].buf, k)
                     = DevRead(dev, U64AddSmall(U64Shr9(hist[1].off), k)))
    /\ [][/\ (pc = "poll" /\ BounceRead(call)
                /\ ~(pc' = "idle" /\ ret'.val = call.ulCount))
             => UserBlocks(mem', call) = UserBlocks(mem, call)
          /\ (act' = "Read" /\ pc = "idle" /\ pc' = "poll" /\ BounceRead(call'))
             => UserBlocks(mem', call') = UserBlocks(mem, call')]_vars

\* a Read of 5120 bytes into a buffer that is not cache aligned has returned
\* 5120 with the payload written before in the buffer
C15_Witness ==
    /\ JustCompleted
    /\ hist[1].op = "Read" /\ hist[1].buf = BufOdd /\ hist[1].val = 5120
    /\ hist[1].xfer = HeapBlock
    /\ Len(hist) = 2 /\ hist[2].op = "Write" /\ hist[2].off = hist[1].off
    /\ \A k \in 0..9 : BufferBlock(BufOdd, k) = Payload(hist[2].tag, k)
    /\ heapLive = {}

\* the pages a buffer of n bytes at p touches, by arithmetic
PagesSpanned(p, n) == ((p + n - 1) \div 4096) - (p \div 4096) + 1

\* the bus address of the k-th page (from 0) a buffer at p touches: the first
\* page is entered at the buffer's own offset, the later ones at their start
BusOfPage(p, k) == 1073741824 + (IF k = 0 THEN p ELSE (p \div 4096) * 4096 + k * 4096)

\* where a controller following PRP1, PRP2 and the list finds the k-th page
PrpPage(r, nPages, k) ==
    IF k = 0 THEN r.prp1
    ELSE IF nPages = 2 THEN r.prp2
    ELSE r.entries[k]

\* C16: a successful BuildForBuffer describes exactly the pages of the buffer,
\* in order: one page by PRP1 alone (PRP2 zero), two pages by PRP1 and PRP2,
\* more by PRP1 and a list page whose bus address is PRP2 and whose entries
\* are the second and later pages, the rest of the list page zero; a list
\* page is allocated exactly when the buffer touches more than two pages,
\* and destroying the builder gives it back to the allocator.
C16_PrpCoverage ==
    Len(prpResult) >= 1
    => LET r == prpResult[1]
           p == prpArgs.pBuffer
           n == PagesSpanned(prpArgs.pBuffer, prpArgs.ulLength)
       IN  /\ r.ok => \A k \in 0..(n - 1) : PrpPage(r, n, k) = BusOfPage(p, k)
           /\ n = 1 => r.ok /\ r.prp2 = 0
           /\ n = 2 => r.ok
           /\ n <= 2 => r.list = 0 /\ r.alloc = prpArgs.a
           /\ n > 2 /\ r.ok
              => /\ r.list # 0
                 /\ r.list % 4096 = 0
                 /\ r.list \notin {b + 24 : b \in DOMAIN prpArgs.a.hdr}
                    \/ prpArgs.a.m_pFreeList = r.list - 24
                 /\ r.prp2 = 1073741824 + r.list
                 /\ Len(r.entries) = 512
                 /\ \A i \in n..512 : r.entries[i] = 0
           /\ n > 2 /\ ~r.ok
              => r.list = 0 /\ prpArgs.a.m_pFreeList = 0
                 /\ prpArgs.a.m_nMemEnd - prpArgs.a.m_nMemStart < 4096 + 24
           /\ Len(prpResult) = 2 /\ r.list # 0
              => /\ prpResult[2].alloc.m_pFreeList = r.list - 24
                 /\ prpResult[2].list = 0

\* a page-aligned 64 KiB buffer got a list of exactly fifteen entries
C16_Witness ==
    /\ Len(prpResult) = 2
    /\ prpArgs.pBuffer % 4096 = 0
    /\ prpArgs.ulLength = 65536
    /\ prpResult[1].ok
    /\ prpResult[1].entries[15] = 1073741824 + prpArgs.pBuffer + 15 * 4096
    /\ prpResult[1].entries[16] = 0

\* a Read of 8192 bytes at offset 0 into a 512-byte-aligned buffer that begins
\* 2048 bytes into a page has completed with SCT = SC = 0
StraddlingRead ==
    /\ JustCompleted
    /\ hist[1].op = "Read"
    /\ hist[1].off = U64Zero
    /\ hist[1].cnt = 8192
    /\ hist[1].buf % 512 = 0
    /\ hist[1].buf % 4096 = 2048
    /\ StatusIsOk(hist[1].status)

\* C17: Seek(0); Read(buf, 8192) with buf 512-byte-aligned and starting 2048
\* bytes into a page touches three pages (2048 + 4096 + 2048 bytes), so the
\* command carries prp1 = bus(buf) and prp2 = the bus address of a PRP list
\* page taken from the allocator, whose first two entries are the bus
\* addresses of the two pages that follow buf's page and whose other entries
\* are zero; the Read returns 8192 with the sixteen blocks in the buffer, and
\* the list page is back on the allocator's free list.
C17_Straddle ==
    StraddlingRead
    => LET h == hist[1]
           cmd == SqRead(sqMem, h.cid)
           nPage == h.buf - 2048
       IN  /\ cmd.prp1 = 1073741824 + h.buf
           /\ h.list # 0
           /\ cmd.prp2 = 1073741824 + h.list
           /\ cmd.prp2 \in DOMAIN prpListMem
           /\ prpListMem[cmd.prp2][1] = 1073741824 + nPage + 4096
           /\ prpListMem[cmd.prp2][2] = 1073741824 + nPage + 8192
           /\ \A i \in 3..512 : prpListMem[cmd.prp2][i] = 0
           /\ cmd.cdw12 = U32(15)
           /\ h.val = 8192
           /\ \A k \in 0..15 : BufferBlock(h.buf, k) = DevRead(dev, U64(k))
           /\ m_Allocator.m_pFreeList = h.list - 24

\* the straddling read brought back sixteen blocks written before it
C17_Witness ==
    /\ StraddlingRead
    /\ Len(hist) = 2
    /\ hist[2].op = "Write"
    /\ \A k \in 0..15 : BufferBlock(hist[1].buf, k) = Payload(hist[2].tag, k)
    /\ BufferBlock(hist[1].buf, 15) # <<0, 0>>

\* C17 as the specification states it: PRP2 is the page after buf's page and
\* no list page is allocated
C17_AsStated ==
    StraddlingRead
    => LET h == hist[1]
           cmd == SqRead(sqMem, h.cid)
       IN  /\ cmd.prp1 = 1073741824 + h.buf
           /\ cmd.prp2 = 1073741824 + (h.buf - 2048) + 4096
           /\ h.list = 0

\* C18: for a controller whose CAP.DSTRD is d (d in 0..3), every submission
\* doorbell write for queue 1 (the register write that follows a slot write)
\* goes to offset 0x1000 + 2 * (4 << d), and every other doorbell write of
\* queue 1 (the completion doorbell) to that offset + 4.
C18_DoorbellStride ==
    LET d == ctrl.cap[3] % 16
        nSq == 4096 + 2 * (4 * 2^d)
    IN  \A i \in 1..Len(log) :
           (log[i].ev = "mmio" /\ log[i].a >= 4096)
           => IF i > 1 /\ log[i - 1].ev = "slot"
              THEN log[i].a = nSq
              ELSE log[i].a = nSq + 4

\* C19: a queue starts with cq_head = 0 and expected phase 1; after k consumed
\* completions cq_head = k mod entries and the expected phase is 1 exactly
\* when floor(k / entries) is even; the expected phase changes in a step
\* exactly when cq_head goes from entries - 1 to 0.
C19_Phase ==
    /\ [](/\ phQueue.nCqHead = phCount % phQueue.nEntries
          /\ phQueue.bCqPhase = ((phCount \div phQueue.nEntries) % 2 = 0))
    /\ [][(phQueue'.bCqPhase # phQueue.bCqPhase)
           <=> (phQueue.nCqHead = phQueue.nEntries - 1 /\ phQueue'.nCqHead = 0)]_vars

\* after `entries` completions the head is 0 again and the phase has toggled
C19_Witness ==
    /\ phCount = phQueue.nEntries
    /\ phQueue.nCqHead = 0
    /\ ~phQueue.bCqPhase

\* C20: allocating and freeing a block (4 KiB, alignment 4 KiB, boundary
\* 1 MiB, or any smaller request served by such a block) K times moves the
\* bump cursor in the first Allocate only: every later Allocate returns the
\* pointer that was just freed and leaves the cursor where it was, and no
\* Free moves it. The first Allocate takes the 4096 bytes of the block, the
\* 24 bytes of its header and the padding that aligns the block from the
\* arena: between 4120 and 8215 bytes, and 8192 bytes when the cursor was
\* page aligned.
C20_Recycle ==
    \A i \in 1..Len(arenaLog) :
       LET e == arenaLog[i]
       IN  /\ e.op = "Free" => e.after = e.before
           /\ e.op = "Allocate" /\ i = 1
              => /\ e.p # 0
                 /\ e.p % 4096 = 0
                 /\ e.after = e.p + 4096
                 /\ e.after - e.before >= 4096 + 24
                 /\ e.after - e.before <= 4096 + 24 + 4095
                 /\ (e.before % 4096 = 0 => e.after - e.before = 8192)
           /\ e.op = "Allocate" /\ i > 1
              => /\ arenaLog[i - 1].op = "Free"
                 /\ e.p = arenaLog[i - 1].p
                 /\ e.p = arenaLog[1].p
                 /\ e.after = e.before
                 /\ e.after = arenaLog[1].after

\* a 4 KiB block has been allocated for the third time from an arena that
\* began at a page
C20_Witness ==
    /\ Len(arenaLog) >= 5
    /\ arenaLog[1].before = 5242880
    /\ \A i \in {1, 3, 5} : arenaLog[i].op = "Allocate" /\ arenaLog[i].nSize = 4096
    /\ arenaLog[5].p = arenaLog[1].p
    /\ arena.m_nMemStart = arenaLog[1].after

\* C20 as the specification states it: the K rounds take at most one page
\* (4096 bytes) from the arena
C20_AsStated ==
    arenaLog # <<>> => arena.m_nMemStart - arenaLog[1].before <= 4096

\* the headers reached from h along pNext, at most n of them
RECURSIVE ChainFrom(_, _, _)
ChainFrom(a, h, n) ==
    IF h = 0 \/ n = 0 THEN {}
    ELSE {h} \cup (IF h \in DOMAIN a.hdr THEN ChainFrom(a, a.hdr[h].pNext, n - 1) ELSE {})

\* C21: after any sequence of Allocate and Free calls (alignment and boundary
\* powers of two, alignment <= boundary) every non-null pointer Allocate
\* returned is a multiple of the alignment asked for; a header lies 24 bytes
\* before it, inside the arena, and carries the magic word 0x4E564D45; and
\* every block on the free list has the header (magic, 4096, 4096, 1 MiB)
\* and page-aligned data, which is what the assertions of Allocate test;
\* the header of every block that is out carries the magic word, which is
\* what the assertion of Free tests.
C21_AllocatorInvariants ==
    /\ \A i \in 1..Len(arenaLog) :
          (arenaLog[i].op = "Allocate" /\ arenaLog[i].p # 0)
          => /\ arenaLog[i].p % arenaLog[i].nAlign = 0
             /\ (arenaLog[i].p - 24) \in DOMAIN arena.hdr
             /\ arena.hdr[arenaLog[i].p - 24].nMagic = 1314213189
             /\ arenaLog[i].p - 24 >= arenaLog[1].before
             /\ arenaLog[i].p + arenaLog[i].nSize <= arena.m_nMemEnd
    /\ \A h \in ChainFrom(arena, arena.m_pFreeList, Cardinality(DOMAIN arena.hdr) + 1) :
          /\ h \in DOMAIN arena.hdr
          /\ arena.hdr[h].nMagic = 1314213189
          /\ arena.hdr[h].nSize = 4096
          /\ arena.hdr[h].nAlign = 4096
          /\ arena.hdr[h].nBoundary = 1048576
          /\ (h + 24) % 4096 = 0
          /\ (h + 24) \notin BlocksOut
    /\ \A pBlock \in BlocksOut :
          /\ (pBlock - 24) \in DOMAIN arena.hdr
          /\ arena.hdr[pBlock - 24].nMagic = 1314213189

\* two blocks, one of them asked for with alignment 64, were freed and
\* are chained on the free list
C21_Witness ==
    /\ Len(arenaLog) = 4
    /\ arenaLog[1].op = "Allocate" /\ arenaLog[1].nAlign = 64 /\ arenaLog[1].p # 0
    /\ arenaLog[2].op = "Allocate" /\ arenaLog[2].nAlign = 4096 /\ arenaLog[2].p # 0
    /\ arenaLog[2].nBoundary = 1048576
    /\ arenaLog[3].op = "Free" /\ arenaLog[3].p = arenaLog[1].p
    /\ arenaLog[4].op = "Free" /\ arenaLog[4].p = arenaLog[2].p
    /\ arena.m_pFreeList = arenaLog[2].p - 24
    /\ arena.hdr[arena.m_pFreeList].pNext = arenaLog[1].p - 24

\* C22: in a build with NVME_READ_ONLY a Write at an offset that is a multiple
\* of 512 with a count that is a non-zero multiple of 512 returns -5 at once:
\* no slot is written, no doorbell is rung, no bounce buffer and no list page
\* is allocated, and the queues, the controller and the device contents are
\* as before; a Write with a misaligned offset or count still returns -1.
C22_ReadOnly ==
    [][(act' = "Write" /\ "NVME_READ_ONLY" \in scn.build)
       => /\ pc' = "idle"
          /\ ret'.op = "Write"
          /\ ret'.val = (IF m_ulOffset[1] % 512 = 0 /\ LastArg' # 0 /\ LastArg' % 512 = 0
                         THEN -5 ELSE -1)
          /\ log' = <<>>
          /\ UNCHANGED <<sqMem, cqMem, ctrl, dev, m_Allocator, prpListMem, heapLive,
                         m_IoQueue, m_AdminQueue, m_ulOffset>>]_vars

\* a Write of 512 bytes from a buffer that is not cache aligned has returned
\* -5 in a read-only build, and the block read back before it is unchanged
C22_Witness ==
    /\ "NVME_READ_ONLY" \in scn.build
    /\ act = "Write"
    /\ ret.op = "Write"
    /\ ret.val = -5
    /\ hist[1].buf % 64 # 0
    /\ hist[1].off = U64Zero
    /\ heapLive = {}

\* the commands of a queue whose slot was handed over and whose completion
\* the driver has not consumed
Depth(q) == (q.nSqTail - q.nCqHead) % q.nEntries

C24_CidReuse ==
    JustCompleted => ctrl.sqHead = m_IoQueue.nSqTail

\* the positions in the log of the current call at which a slot was written
SlotWrites == {i \in 1..Len(log) : IsSlotWrite(log[i])}

\* the positions at which the submission doorbell of queue 1 was written
SqDoorbellWrites == {i \in 1..Len(log) : IsSqDoorbellWrite(log[i])}

\* C25: a call that polls has written one slot of queue 1, at the index the
\* tail had, with cid = that index, then moved the tail on by one modulo the
\* number of entries, then written the submission doorbell once, with the new
\* tail, as the last thing before polling; no submission doorbell is written
\* without the slot write just before it; sq_tail and cq_head stay below the
\* number of entries; and every slot written has cid = its index and zero in
\* fuse, the reserved qword, mptr and cdw13..cdw15.
C25_SubmitOrder ==
    /\ [](/\ m_IoQueue.nSqTail < 64 /\ m_IoQueue.nCqHead < 64
          /\ m_AdminQueue.nSqTail < 64 /\ m_AdminQueue.nCqHead < 64
          /\ \A i \in DOMAIN sqMem :
                /\ sqMem[i].cid = i
                /\ sqMem[i].fuse = 0 /\ sqMem[i].reserved = 0 /\ sqMem[i].mptr = 0
                /\ sqMem[i].cdw13 = <<0, 0>> /\ sqMem[i].cdw14 = <<0, 0>>
                /\ sqMem[i].cdw15 = <<0, 0>>
          /\ \A i \in SqDoorbellWrites : i > 1 /\ IsSlotWrite(log[i - 1])
          /\ pc = "poll"
             => /\ Cardinality(SlotWrites) = 1
                /\ SqDoorbellWrites = {Len(log)}
                /\ log[Len(log) - 1] = [ev |-> "slot", a |-> 1, b |-> call.usCid]
                /\ log[Len(log)].b = (call.usCid + 1) % 64
                /\ m_IoQueue.nSqTail = (call.usCid + 1) % 64
                /\ call.usCid \in DOMAIN sqMem)
    /\ [][(pc = "idle" /\ pc' = "poll")
           => /\ call'.usCid = m_IoQueue.nSqTail
              /\ m_IoQueue'.nSqTail = (m_IoQueue.nSqTail + 1) % 64
              /\ m_IoQueue'.nCqHead = m_IoQueue.nCqHead]_vars

\* the second command of a run, a Write through a PRP list, polls
C25_Witness ==
    /\ pc = "poll"
    /\ call.op = "Write"
    /\ call.usCid = 1
    /\ call.list # 0
    /\ sqMem[1].opc = 1
    /\ m_IoQueue.nSqTail = 2

\* the match test by arithmetic on the entry: phase bit (bit 0 of the status
\* word), command identifier, submission queue identifier
FullMatch(q, ce, usCid) ==
    /\ (ce.status % 2 = 1) = q.bCqPhase
    /\ ce.cid = usCid
    /\ ce.sqid = q.usID

\* the entry at the head of the I/O completion ring
HeadEntry == CqRead(cqMem, m_IoQueue.nCqHead)

\* C26: a completion entry is consumed only on a full match.  While a command
\* is awaited and the entry at the head differs in phase, in cid or in sqid,
\* no step moves the head, toggles the expected phase or writes the completion
\* doorbell, and the call returns, if it does, with TIMEOUT only; in the
\* interrupt build a wake-up without a match leaves the caller polling.
C26_FullMatch ==
    [][(pc \in {"wait", "poll"} /\ ~FullMatch(m_IoQueue, HeadEntry, call.usCid))
       => /\ m_IoQueue'.nCqHead = m_IoQueue.nCqHead
          /\ m_IoQueue'.bCqPhase = m_IoQueue.bCqPhase
          /\ ctrl'.cqHead = ctrl.cqHead
          /\ \A i \in 1..Len(log') : i > Len(log) => ~IsCqDoorbellWrite(log'[i])
          /\ pc' \in {"wait", "poll", "idle"}
          /\ (pc' = "idle" => ret'.val = NVME_STATUS_ERROR_TIMEOUT)
          /\ (pc = "poll" /\ pc' = "idle" => TimedOut(call.nElapsed, POLL_TIMEOUT_HZ))
          /\ (act' = "WaitWake" => pc' = "poll")]_vars

\* the interrupt build, woken by the event, has polled on over an entry of
\* the right phase and cid and of another queue
C26_Witness ==
    /\ "NO_BUSY_WAIT" \in scn.build
    /\ pc = "poll"
    /\ act = "PollTick"
    /\ m_Event
    /\ (HeadEntry.status % 2 = 1) = m_IoQueue.bCqPhase
    /\ HeadEntry.cid = call.usCid
    /\ HeadEntry.sqid # m_IoQueue.usID
    /\ m_IoQueue.nCqHead = 0
    /\ ctrl.cqHead = 0

\* what Initialize did that the controller or the device registry saw, in
\* order (the interrupt mask is left out)
InitEvents == SelectSeq(log, LAMBDA e : ~(e.ev = "mmio" /\ e.a = 12))

\* the place of an event in the order of initialisation, 0 if it has none
StepOf(e) ==
    IF e.ev = "mmio" /\ e.a = 20 /\ e.b % 2 = 0 THEN 1
    ELSE IF e.ev = "ready" /\ e.a = FALSE THEN 2
    ELSE IF e.ev = "mmio" /\ e.a = 36 THEN 3
    ELSE IF e.ev = "mmio" /\ e.a = 40 THEN 4
    ELSE IF e.ev = "mmio" /\ e.a = 48 THEN 5
    ELSE IF e.ev = "mmio" /\ e.a = 20 /\ e.b % 2 = 1 THEN 6
    ELSE IF e.ev = "ready" /\ e.a = TRUE THEN 7
    ELSE IF e.ev = "admin" /\ e.a = 5 THEN 8
    ELSE IF e.ev = "admin" /\ e.a = 1 THEN 9
    ELSE IF e.ev = "admin" /\ e.a = 6 /\ e.b.cdw10 = 0 /\ e.b.nsid = 1 THEN 10
    ELSE IF e.ev = "admin" /\ e.a = 6 /\ e.b.cdw10 = 1 THEN 11
    ELSE IF e.ev = "register" THEN 12
    ELSE 0

\* a wait that gave up, an admin command that did not return OK
StepFailed(e) ==
    \/ e.ev = "ready" /\ ~e.b
    \/ e.ev = "admin" /\ e.b.ret # 0

\* C27: Initialize is an ordered state machine.  What it does is a prefix of:
\* CC.EN cleared, CSTS.RDY = 0 awaited, AQA, ASQ, ACQ written, CC.EN = 1
\* written, CSTS.RDY = 1 awaited, CREATE I/O CQ (0x05), CREATE I/O SQ (0x01),
\* IDENTIFY CNS 0 of namespace 1, IDENTIFY CNS 1, the device registered.  A
\* step that fails is the last one, Initialize then returns false, and it
\* returns true exactly when the device was registered.
C27_InitOrder ==
    act = "Initialize"
    => /\ Len(InitEvents) <= 12
       /\ \A i \in 1..Len(InitEvents) : StepOf(InitEvents[i]) = i
       /\ \A i \in 1..(Len(InitEvents) - 1) : ~StepFailed(InitEvents[i])
       /\ (ret.val = TRUE) <=> (Len(InitEvents) = 12)
       /\ (ret.val = TRUE) <=> (drvState = "ready")
       /\ (Len(InitEvents) >= 1 /\ StepFailed(InitEvents[Len(InitEvents)]))
          => ret.val = FALSE

\* Initialize went through all twelve steps and returned true
C27_Witness ==
    /\ act = "Initialize"
    /\ ret.val = TRUE
    /\ Len(InitEvents) = 12
    /\ StepOf(InitEvents[3]) = 3
    /\ StepOf(InitEvents[8]) = 8
    /\ StepOf(InitEvents[11]) = 11
    /\ ctrl.cc % 2 = 1

\* C28: whatever CC holds before the enable step, the value written has
\* IOSQES (bits 16..19) = 6, IOCQES (bits 20..23) = 4 and EN (bit 0) = 1.
C28_EnableFields ==
    (regOut # <<>> /\ regIn[1] = "CC")
    => /\ (regOut[1] \div 2^16) % 16 = 6
       /\ (regOut[1] \div 2^20) % 16 = 4
       /\ regOut[1] % 2 = 1

\* C29: for every CAP value the ready timeout is the tick equivalent of
\* TO x 500 ms, TO being CAP bits 24..31 and nothing else, and 5 s when that
\* is zero.
C29_ReadyTimeout ==
    (regOut # <<>> /\ regIn[1] = "CAP")
    => LET nTo == (regIn[2][2] \div 2^8) % 2^8
           nTicks == (nTo * 500 * HZ) \div 1000
       IN  regOut[1] = IF nTicks = 0 THEN 5 * HZ ELSE nTicks

\* the event was cleared, vector 0 unmasked (a write of 1 to INTMC, offset 16)
IsEventClear(e) == e.ev = "clear"
IsUnmask(e) == e.ev = "mmio" /\ e.a = 16 /\ e.b = <<1, 0>>

\* the wake-up for the awaited completion is delivered or on its way: the
\* event is signalled, or the handler is about to signal it, or the line is
\* raised and the handler will be entered
WakeUpDue == m_Event \/ hpc = "set" \/ (ctrl.cqTail # ctrl.cqHead /\ ctrl.intms[1] % 2 = 0)

\* C30: interrupt mode loses no wake-up.  In every call the event is cleared
\* and then vector 0 unmasked before the submission doorbell is written; the
\* handler masks vector 0 and then signals the event; while the caller waits
\* with the awaited completion at the head, the wake-up is delivered or on its
\* way; and once the event is signalled with that completion at the head, the
\* call returns what the completion says, not TIMEOUT.
C30_NoLostWakeup ==
    /\ [](/\ \A d \in SqDoorbellWrites :
                \E c \in 1..d : \E u \in c..d :
                   /\ IsEventClear(log[c])
                   /\ IsUnmask(log[u])
                   /\ \A k \in (c + 1)..d : ~IsEventClear(log[k])
          /\ (pc = "wait" /\ FullMatch(m_IoQueue, HeadEntry, call.usCid)) => WakeUpDue)
    /\ [][/\ act' = "HandlerMask" => (ctrl'.intms[1] % 2 = 1 /\ hpc' = "set")
          /\ (hpc = "set" /\ hpc' # "set") => m_Event'
          /\ (pc = "wait" /\ m_Event) => (pc' \in {"wait", "poll"} /\ ret' = ret)
          /\ (/\ pc \in {"wait", "poll"}
              /\ FullMatch(m_IoQueue, HeadEntry, call.usCid)
              /\ m_Event
              /\ pc' = "idle")
             => ret'.val = ExpectedResult(HeadEntry.status)]_vars

\* a flush in the interrupt build, no command having been given up before:
\* the controller posted its completion with a failure status while the
\* caller waited, the handler masked vector 0 and signalled the event, and the
\* call returned the controller error
C30_Witness ==
    /\ "NO_BUSY_WAIT" \in scn.build
    /\ act = "PollMatch"
    /\ nTimedOut = 0
    /\ ret.val = -3
    /\ m_Event
    /\ hpc = "idle"
    /\ ctrl.intms[1] % 2 = 1
    /\ \E c, u, d, h \in 1..Len(log) :
          /\ c < u /\ u < d /\ d < h
          /\ IsEventClear(log[c])
          /\ IsUnmask(log[u])
          /\ IsSqDoorbellWrite(log[d])
          /\ log[h].ev = "mmio" /\ log[h].a = 12

\* the calls of arenaLog that took a block from the cursor
BumpCalls ==
    {i \in 1..Len(arenaLog) : /\ arenaLog[i].op = "Allocate"
                              /\ \/ arenaLog[i].after # arenaLog[i].before
                                 \/ arenaLog[i].p = 0}

\* the header Allocate wrote for the block at p
HeaderOf(p) == arena.hdr[p - HeaderSize]

\* C32: for every allocation served from the cursor whose alignment is a power
\* of two not above the boundary and whose size is not above the boundary, the
\* block [p, p + size) does not cross a multiple of the boundary and p is a
\* multiple of the alignment, also when the cursor was rounded up to the
\* boundary; this holds for the values asked for and for the values of the
\* header (4096, 4096, 1 MiB for a page request).
C32_NoBoundaryCrossing ==
    \A i \in BumpCalls :
       LET rec == arenaLog[i]
           Kept(p, nSize, nAlign, nBoundary) ==
               (nAlign <= nBoundary /\ nSize <= nBoundary)
               => /\ p \div nBoundary = (p + nSize - 1) \div nBoundary
                  /\ p % nAlign = 0
       IN  rec.p # 0
           => /\ Kept(rec.p, rec.nSize, rec.nAlign, rec.nBoundary)
              /\ Kept(rec.p, HeaderOf(rec.p).nSize, HeaderOf(rec.p).nAlign,
                      HeaderOf(rec.p).nBoundary)

\* a block of two pages with boundary 16 KiB was taken from the cursor, which
\* was rounded up to the boundary because the aligned block would have
\* crossed it
C32_Witness ==
    \E i \in BumpCalls :
       /\ arenaLog[i].p # 0
       /\ arenaLog[i].nBoundary = 16384
       /\ arenaLog[i].nSize = 8192
       /\ arenaLog[i].p # BumpAlign(arenaLog[i].before, arenaLog[i].nAlign)
       /\ arenaLog[i].p % 16384 = 0

\* the size, alignment and boundary Allocate works with for a request
EffectiveRequest(rec) ==
    IF IsPageRequest(rec.nSize, rec.nAlign, rec.nBoundary)
    THEN [nSize |-> 4096, nAlign |-> 4096, nBoundary |-> 1048576]
    ELSE [nSize |-> rec.nSize, nAlign |-> rec.nAlign, nBoundary |-> rec.nBoundary]

\* C33: an allocation served from the cursor returns null exactly when the
\* cursor, moved past the header, rounded up to the alignment, rounded up to
\* the boundary if the block would cross it, and moved past the block, is
\* beyond the end of the arena; every block returned lies inside the arena
\* from its header (24 bytes before the pointer, not before the place the
\* cursor came from) to its last byte.
C33_NullWhenBeyondEnd ==
    \A i \in BumpCalls :
       LET rec == arenaLog[i]
           rq == EffectiveRequest(rec)
           nAligned == ((rec.before + 24 + rq.nAlign - 1) \div rq.nAlign) * rq.nAlign
           nCrosses == nAligned \div rq.nBoundary
                       # (nAligned + rq.nSize - 1) \div rq.nBoundary
           nPlaced == IF nCrosses
                      THEN ((nAligned + rq.nBoundary - 1) \div rq.nBoundary) * rq.nBoundary
                      ELSE nAligned
       IN  /\ rec.after = nPlaced + rq.nSize
           /\ rec.p = 0 <=> nPlaced + rq.nSize > arena.m_nMemEnd
           /\ rec.p # 0
              => /\ rec.p = nPlaced
                 /\ rec.p - 24 >= rec.before
                 /\ rec.before >= arenaLog[1].before
                 /\ rec.p + rq.nSize <= arena.m_nMemEnd
                 /\ rec.p + rec.nSize <= arena.m_nMemEnd

\* twelve pages were taken from the cursor, and a second request for twelve
\* pages, which the 64 KiB arena cannot hold, returned null
C33_Witness ==
    \E i, j \in BumpCalls :
       /\ i < j
       /\ arenaLog[i].nSize = 49152 /\ arenaLog[i].p # 0
       /\ arenaLog[j].nSize = 49152 /\ arenaLog[j].p = 0
       /\ arenaLog[j].after > arena.m_nMemEnd

\* the bytes of the block with header h, header included
BlockBytes(h) == [from |-> h, to |-> h + 24 + arena.hdr[h].nSize]

\* the calls of arenaLog that were served from the free list
PopCalls ==
    {i \in 1..Len(arenaLog) : /\ arenaLog[i].op = "Allocate"
                              /\ arenaLog[i].after = arenaLog[i].before
                              /\ arenaLog[i].p # 0}

\* C37: after any sequence of Allocate calls and of Free calls on blocks that
\* are out, the blocks that are out and the blocks on the free list (indeed
\* all blocks ever carved, headers included) are pairwise disjoint; the free
\* list holds every block at most once and none that is out; no pointer is
\* returned twice without a Free of it in between; and a block popped from the
\* free list has room for the request it serves: 4096 bytes for at most 4096,
\* a page-aligned address for an alignment of at most 4096, and no multiple of
\* the boundary asked for inside the block when the size is not above it.
C37_BlocksDisjoint ==
    LET chain == ChainFrom(arena, arena.m_pFreeList, Cardinality(DOMAIN arena.hdr) + 1)
    IN  /\ \A g, h \in DOMAIN arena.hdr :
              g # h => \/ BlockBytes(g).to <= BlockBytes(h).from
                       \/ BlockBytes(h).to <= BlockBytes(g).from
        /\ \A h \in chain : (h + 24) \notin BlocksOut
        /\ \A g, h \in chain : (g # h) => arena.hdr[g].pNext # arena.hdr[h].pNext
        /\ \A h \in chain : arena.hdr[h].pNext # arena.m_pFreeList
        /\ \A i, j \in 1..Len(arenaLog) :
              (/\ i < j
               /\ arenaLog[i].op = "Allocate" /\ arenaLog[j].op = "Allocate"
               /\ arenaLog[i].p # 0 /\ arenaLog[i].p = arenaLog[j].p)
              => \E k \in (i + 1)..(j - 1) :
                    arenaLog[k].op = "Free" /\ arenaLog[k].p = arenaLog[i].p
        /\ \A i \in PopCalls :
              LET rec == arenaLog[i]
              IN  /\ arena.hdr[rec.p - 24].nSize >= rec.nSize
                  /\ rec.p % rec.nAlign = 0
                  /\ rec.p + rec.nSize <= arena.m_nMemEnd
                  /\ rec.nSize <= rec.nBoundary
                     => rec.p \div rec.nBoundary
                        = (rec.p + rec.nSize - 1) \div rec.nBoundary

\* two blocks were carved, the first was freed, and a request for 512 bytes
\* aligned to 64 was served with it from the free list while the second is
\* still out
C37_Witness ==
    /\ Len(arenaLog) = 4
    /\ 4 \in PopCalls
    /\ arenaLog[4].nSize = 512 /\ arenaLog[4].nAlign = 64
    /\ {1, 2} \subseteq BumpCalls
    /\ arenaLog[1].p # 0 /\ arenaLog[2].p # 0
    /\ arenaLog[3].op = "Free" /\ arenaLog[3].p = arenaLog[1].p
    /\ arenaLog[4].p = arenaLog[1].p
    /\ arena.m_pFreeList = 0
    /\ BlocksOut = {arenaLog[2].p, arenaLog[4].p}

\* the calls of arenaLog that went to the cursor and returned null
FailedCalls == {i \in BumpCalls : arenaLog[i].p = 0}

\* C38: once an allocation served from the cursor has returned null, the
\* cursor is beyond the end of the arena and stays there, GetFreeSpace returns
\* 0, and every later allocation that goes to the cursor returns null, also one
\* that would have fitted at the cursor the failed call started from; the only
\* calls that still return a block are those served from the free list.
C38_FailureSticks ==
    \A i \in FailedCalls :
       /\ arenaLog[i].after > arena.m_nMemEnd
       /\ arena.m_nMemStart > arena.m_nMemEnd
       /\ GetFreeSpace(arena) = 0
       /\ \A j \in (i + 1)..Len(arenaLog) :
             /\ arenaLog[j].before > arena.m_nMemEnd
             /\ arenaLog[j].after >= arenaLog[j].before
             /\ (arenaLog[j].op = "Allocate" /\ arenaLog[j].p # 0) => j \in PopCalls
             /\ j \in BumpCalls => arenaLog[j].p = 0

\* a request for twelve pages returned null, and a later request for one page,
\* which would have fitted at the cursor the failed call started from, went
\* to the cursor and returned null as well
C38_Witness ==
    \E i \in FailedCalls : \E j \in FailedCalls :
       /\ i < j
       /\ arenaLog[i].nSize = 49152
       /\ arenaLog[j].nSize = 4096 /\ arenaLog[j].nAlign = 4096
       /\ ((arenaLog[i].before + 24 + 4095) \div 4096) * 4096 + 4096 <= arena.m_nMemEnd
       /\ GetFreeSpace(arena) = 0

\* after a failed allocation a page request was served from the free list
PopAfterFailure ==
    \E i \in FailedCalls : \E j \in PopCalls : i < j

\* C35: every block the driver frees is put back on the free list (after the
\* descriptor set of a transfer is dropped its list is the head of the free
\* list, and the destructor's last ring is the head after it), whatever the
\* length of the transfer; and when the same transfer is repeated, no call
\* after the first moves the cursor and none fails for lack of memory.
C35_NoLeak ==
    /\ \A i \in 1..Len(arenaLog) :
          (arenaLog[i].op \in {"Release", "Destroy"} /\ arenaLog[i].p # 0)
          => arenaLog[i].head = arenaLog[i].p - 24
    /\ \A i \in BuildCalls :
          /\ arenaLog[i].ok
          /\ (\E j \in BuildCalls : j < i) => arenaLog[i].after = arenaLog[i].before

\* transfers with a list of one page: the list came from the page freed by
\* Identify, went back to the free list, and three calls left the cursor
\* where Initialize had put it
RepeatRecycled ==
    /\ Cardinality(BuildCalls) = 3
    /\ Len(arenaLog) = 6
    /\ prpArgs.ulLength = 16 * 4096
    /\ \A i \in 1..6 : arenaLog[i].p # 0 /\ arenaLog[i].after = prpArgs.a.m_nMemStart
    /\ arena = prpArgs.a

\* C36: Read and Write leave the byte cursor alone, whether they succeed or
\* fail: while such a call is in progress and when it returns, m_ulOffset is
\* what it was when the call began, so a second Read with no Seek in between
\* begins at the same offset; the only step that changes m_ulOffset is Seek.
C36_CursorFrame ==
    /\ [](call.op \in {"Read", "Write"} => call.off = m_ulOffset)
    /\ [][/\ m_ulOffset' # m_ulOffset => act' = "Seek"
          /\ (hist' # hist /\ hist'[1].op \in {"Read", "Write"})
             => m_ulOffset' = hist'[1].off
          /\ act' \in {"Read", "Write"} => m_ulOffset' = m_ulOffset]_vars

\* after a Seek to a non-zero offset two Reads in a row have returned their
\* count, both from the offset the cursor still holds
C36_Witness ==
    /\ Len(hist) = 2
    /\ hist[1].op = "Read" /\ hist[2].op = "Read"
    /\ hist[1].val = hist[1].cnt /\ hist[2].val = hist[2].cnt
    /\ hist[1].off = hist[2].off
    /\ hist[1].off = m_ulOffset
    /\ m_ulOffset # <<0, 0, 0, 0>>
    /\ pc = "idle"

\* the slots of queue 1 whose doorbell was rung and which the controller has
\* not fetched yet
Outstanding ==
    {i \in 0..(NVME_IO_QUEUE_ENTRIES - 1) :
        IF ctrl.sqHead <= ctrl.sqTail
        THEN ctrl.sqHead <= i /\ i < ctrl.sqTail
        ELSE ctrl.sqHead <= i \/ i < ctrl.sqTail}

\* the blocks on the free list of the driver's allocator, by their data address
FreeBlocks ==
    {h + 24 : h \in ChainFrom(m_Allocator, m_Allocator.m_pFreeList,
                              Cardinality(DOMAIN m_Allocator.hdr) + 1)}

\* true when the command transfers to or from a block of operator new
UsesHeap(cmd) == cmd.prp1 - 1073741824 >= HeapBase /\ cmd.prp1 - 1073741824 < HeapBase + 2^16

\* true when PRP2 of the command is the bus address of a list page
UsesList(cmd) ==
    /\ (U32Val(cmd.cdw12) + 1) * 512 - (4096 - (cmd.prp1 % 4096)) > 4096
    /\ cmd.prp2 # 0

\* C34: from the submission doorbell write of a Read or Write command to the
\* consumption of its completion, the memory the command names is owned by it:
\* its bounce buffer has not been deleted and its PRP list page is not on the
\* free list of the allocator.  This is required of the call that polls and
\* of every command the controller has still to fetch, which includes the
\* commands of calls that returned TIMEOUT.
C34_DmaOwnership ==
    /\ pc = "poll"
       => /\ call.pDMABuffer # 0 => call.pDMABuffer \in heapLive
          /\ call.list # 0 => call.list \notin FreeBlocks
    /\ \A i \in Outstanding :
          LET cmd == SqRead(sqMem, i)
          IN  cmd.opc \in {NVME_IO_OPC_READ, NVME_IO_OPC_WRITE}
              => /\ UsesHeap(cmd)
                    => \E p \in heapLive : cmd.prp1 = 1073741824 + p
                 /\ UsesList(cmd) => (cmd.prp2 - 1073741824) \notin FreeBlocks

\* a Read through a bounce buffer is polling: the buffer is live and the
\* controller has not fetched the command yet
PollingOwnsBuffer ==
    /\ pc = "poll"
    /\ call.op = "Read"
    /\ call.pDMABuffer \in heapLive
    /\ Outstanding # {}
    /\ UsesHeap(SqRead(sqMem, ctrl.sqHead))

\* no call has timed out yet, or the memory of every command is its own
OwnedUntilTimeout == nTimedOut = 0 => C34_DmaOwnership

\* the list page of a Write that returned TIMEOUT is on the free list while
\* the controller has still to fetch the command
ListFreedWhileOutstanding ==
    \E i \in Outstanding :
       /\ UsesList(SqRead(sqMem, i))
       /\ (SqRead(sqMem, i).prp2 - 1073741824) \in FreeBlocks

\* a WaitReady call is running
ReadyRunning == wr # <<>> /\ wr.pc # "idle"

\* a WaitReady call has returned
ReadyReturned == wr # <<>> /\ wr.pc = "idle" /\ wr.ret # "none"

\* C31: with a tick counter that keeps advancing, every command that was
\* submitted (by Read, Write or IOCtl (SYNC), in either build) is followed by
\* the return of its call, and every WaitReady that was entered returns,
\* whatever the controller does; a call that returns while the controller has
\* not fetched its command returns TIMEOUT (-4); WaitReady has read CSTS at
\* least once when it returns, and it returns true exactly when the value it
\* read last had RDY equal to what it waited for, so it returns false when the
\* controller never shows that value.
C31_Termination ==
    /\ (pc # "idle") ~> (pc = "idle")
    /\ ReadyRunning ~> ReadyReturned
    /\ [][(pc # "idle" /\ pc' = "idle" /\ call.usCid \in Outstanding)
          => ret'.val = -4]_vars
    /\ [](ReadyReturned => (wr.bRead /\ (wr.ret = "true" <=> wr.bLast = wr.bOn)))

\* WaitReady (true) has returned false after the ticks of the default timeout
\* had passed, having read RDY = 0 last
C31_Witness ==
    /\ ReadyReturned
    /\ wr.ret = "false"
    /\ wr.bOn
    /\ wr.bRead /\ ~wr.bLast
    /\ wr.m_nTimeoutHZ = MSEC2HZ(5000)
    /\ wr.nElapsed >= wr.m_nTimeoutHZ

\* a Read has returned TIMEOUT while the controller had not fetched its command
ReadTimedOutUnfetched ==
    /\ pc = "idle"
    /\ act = "PollTimeout"
    /\ ret.op = "Read" /\ ret.val = -4
    /\ Outstanding # {}

\* a flush of the interrupt build has returned TIMEOUT from the wait for the
\* event
FlushTimedOutWaiting ==
    /\ pc = "idle"
    /\ act = "WaitTimeout"
    /\ ret.val = -4

\* Read is about to call GetChar in line-input mode
ReadWaitsInput == ld # <<>> /\ ld.pc = "input"

\* the cursor and the end of the line lie in the first MaxLine bytes
EditBounds ==
    /\ 0 <= ld.m_pInPtr
    /\ ld.m_pInPtr <= ld.m_pInEnd
    /\ ld.m_pInEnd <= MaxLine

\* the history's index and size
HistoryBounds ==
    /\ ld.m_nHistoryIndex <= ld.m_nHistorySize
    /\ ld.m_nHistorySize <= MaxHistorySize

\* C39: for every sequence of input bytes and of SetOptionRawMode calls,
\* whenever Read waits for the next character in line-input mode,
\* m_Buffer <= m_pInPtr <= m_pInEnd <= m_Buffer + MaxLine holds; the
\* terminating newline and NUL are always written inside the MaxLine+2 byte
\* buffer, and m_nHistoryIndex <= m_nHistorySize <= MaxHistorySize.
C39_EditBufferBounds ==
    ld # <<>> =>
        /\ ReadWaitsInput => EditBounds
        /\ ~ld.bOverrun
        /\ HistoryBounds

\* the same in the runs in which SetOptionRawMode is not called
BoundsWithoutOptions ==
    (ld # <<>> /\ ~ld.bOptions) =>
        /\ ReadWaitsInput => EditBounds
        /\ ~ld.bOverrun
        /\ HistoryBounds

\* Read waits for input with the end of the line behind the first MaxLine bytes
EndBeyondMaxLine == ReadWaitsInput /\ ld.m_pInEnd > MaxLine

\* the terminating NUL was written behind the buffer
NulBehindBuffer == ld # <<>> /\ ld.bOverrun

\* a full history has scrolled, without SetOptionRawMode
HistoryScrolled ==
    /\ ld # <<>>
    /\ ~ld.bOptions
    /\ ld.m_nHistorySize = MaxHistorySize
    /\ ld.m_History[MaxHistorySize - 1] = <<ChLower, ChLF>>
    /\ ld.m_History[0] = <<ChLower + 1, ChLF>>

\* a line of MaxLine characters was entered and handed out, the history
\* holding it
FullLineEntered ==
    /\ ld # <<>>
    /\ ~ld.bOptions
    /\ ld.pc = "idle"
    /\ ld.ret = MaxLine + 1
    /\ ld.m_nHistorySize = 1
    /\ Len(ld.m_History[0]) = MaxLine + 1

\* the byte GetChar got last belongs to an escape sequence GetChar recognises:
\* ESC, '[', the parameter digits, ';', '5', the final letter or '~'
EscapeByte ==
    LET s == ld.last.state
        ch == ld.last.ch
        bDigit == Ch0 <= ch /\ ch <= Ch9
    IN  \/ s = "StateStart" /\ ch = ChESC
        \/ s = "StateEscape" /\ ch = ChBracket
        \/ s = "StateSquareBracket1"
              /\ (bDigit \/ ch \in {ChA, ChB, ChC, ChD, ChG, ChBracket})
        \/ s = "StateSquareBracket2" /\ ChA <= ch /\ ch <= ChE
        \/ s = "StateNumber1" /\ (bDigit \/ ch \in {ChSemicolon, ChTilde})
        \/ s = "StateSemicolon" /\ ch = Ch5
        \/ s = "StateNumber2"

\* GetChar returned 0 or an escape-key code for the byte it got last, and Read
\* did not insert it
ByteConsumed ==
    /\ ld.last.nChar = 0 \/ ld.last.nChar >= EscapeKeyStart
    /\ ~ld.last.bInserted

\* the bytes ESC [ 1 5 ~
SeqF5 == <<ChESC, ChBracket, Ch0 + 1, Ch5, ChTilde>>

\* C40: outside raw mode every byte that belongs to an escape sequence
\* GetChar recognises (ESC, '[', one or two decimal parameter digits, ';',
\* '5', the final letter or '~') is consumed: GetChar returns 0 or the
\* escape-key code for it, and it is never inserted into the edit buffer; the
\* input ESC [ 1 5 ~ inserts nothing and leaves the parser in its start state.
C40_EscapeBytesConsumed ==
    (ld # <<>> /\ ld.last # <<>>) =>
        /\ EscapeByte => ByteConsumed
        /\ ld.seq = SeqF5 => (ld.nInserted = 0 /\ ld.m_InputState = "StateStart")

\* the same for every byte but a second parameter digit
ConsumedButSecondDigit ==
    (ld # <<>> /\ ld.last # <<>> /\ EscapeByte) =>
        \/ ByteConsumed
        \/ ld.last.state = "StateNumber1" /\ Ch0 <= ld.last.ch /\ ld.last.ch <= Ch9

\* ESC [ 1 5 ~ has been read, and the '5' is in the edit buffer
F5InsertsDigit ==
    /\ ld # <<>>
    /\ ld.seq = SeqF5
    /\ ld.nInserted = 1
    /\ ld.m_pInEnd = 1
    /\ ld.m_Buffer[0] = Ch5
    /\ ld.m_InputState = "StateStart"

\* ESC [ 2 ~ has switched to overwriting and a character was overwritten
Overwritten ==
    /\ ld # <<>>
    /\ ~ld.m_bInsert
    /\ ld.m_pInEnd = 1
    /\ ld.m_pInPtr = 1
    /\ ld.nInput = 6

\* the Up key has brought back the line entered before
LineRecalled ==
    /\ ld # <<>>
    /\ ld.last # <<>>
    /\ ld.last.nChar = EscapeKeyUp
    /\ ld.m_nHistoryIndex = 0
    /\ ld.m_nHistorySize = 1
    /\ ld.m_pInEnd = 1
    /\ ld.m_Buffer[0] = ChLower
====
